---- MODULE Spec2Model ----
(***************************************************************************)
(* Verification model of the SirsiMaster component library scripts:        *)
(*   - cicd-pipelines/scripts/setup-pipeline.js  (the setup wizard)        *)
(*   - the documentation generator (parseComponent)                        *)
(*   - the navigation loaders sidebar.js, admin-header.js and              *)
(*     universal-header.js                                                 *)
(* Strings the code only stores are TLA+ strings.  Strings the code takes  *)
(* apart are sequences: option labels are sequences of the words that      *)
(* split(' ') yields, answers given to parseInt and HTML templates are     *)
(* sequences of characters, pathnames are sequences of the parts that      *)
(* split('/') yields after the leading slash.                              *)
(***************************************************************************)
EXTENDS Integers, Sequences, FiniteSets, TLC

VARIABLES
  \* ---- setup wizard (setup-pipeline.js) ----
  wpc,            \* position of main()
  wloc,           \* local variables of main() collected so far
  environments,   \* the environments array
  picked,         \* menu position main() was handed back for each select question
  console,        \* set of console lines that matter (hints, errors)
  files,          \* files written: name -> content
  secretsShown,   \* the secret list printed under "Next Steps"
  \* ---- documentation generator ----
  dpc, decls, code, componentInfo,
  mpc,            \* position of the generator's main()
  fsys,           \* the file system main() runs on: what cannot be read or written
  componentFiles, \* what scanComponents returned
  mi,             \* index of the file the forEach of main() handles next
  components,     \* the components array of main()
  docs,           \* docs/components/<name>.md written so far: name -> content
  indexFile,      \* content of docs/COMPONENT_INDEX.md
  mlog,           \* console lines of main(), in order
  \* ---- install.sh ----
  ipc,            \* position of the script
  project,        \* the directory install.sh is run in
  iruns,          \* how many times the script has been started
  \* ---- navigation loaders ----
  loader,         \* which loader script this page runs
  lpc,            \* position of the loader
  page,           \* pathname, placeholder attributes, script tag
  template,       \* the HTML the server would serve for the template
  xhr,            \* request state: url, readyState, status, count
  dom,            \* what stands where the placeholder stood
  lcfg,           \* base / config computed by the loader
  llog,           \* console lines of the loader
  timers          \* setTimeout callbacks not yet run (admin header) and the
                  \* events dispatched on window (universal header)

wvars == <<wpc, wloc, environments, picked, console, files, secretsShown>>
mvars == <<mpc, fsys, componentFiles, mi, components, docs, indexFile, mlog>>
ivars == <<ipc, project, iruns>>
dvars == <<dpc, decls, code, componentInfo, mvars, ivars>>
lvars == <<loader, lpc, page, template, xhr, dom, lcfg, llog, timers>>
vars == <<wvars, dvars, lvars>>

None == "none"

\* JavaScript numbers that may be NaN: NaN is <<>>, the number n is <<n>>
NaN == <<>>
Num(n) == <<n>>

Range(s) == {s[i] : i \in 1..Len(s)}

Digits == <<"0", "1", "2", "3", "4", "5", "6", "7", "8", "9">>
IsDigit(c) == \E d \in 1..10 : Digits[d] = c
DigitVal(c) == (CHOOSE d \in 1..10 : Digits[d] = c) - 1

RECURSIVE LeadingDigits(_, _)
\* value of the longest digit prefix of s, acc is the value read so far
LeadingDigits(s, acc) ==
  IF s = <<>> \/ ~IsDigit(Head(s)) THEN acc
  ELSE LeadingDigits(Tail(s), 10 * acc + DigitVal(Head(s)))

RECURSIVE TrimLeft(_)
TrimLeft(s) == IF s # <<>> /\ Head(s) = " " THEN TrimLeft(Tail(s)) ELSE s

\* JavaScript parseInt on a string of characters: leading blanks, an optional
\* sign, then the longest run of digits; NaN when there is no digit.
parseInt(str) ==
  LET t == TrimLeft(str)
      neg == t # <<>> /\ Head(t) = "-"
      u == IF t # <<>> /\ Head(t) \in {"-", "+"} THEN Tail(t) ELSE t
  IN IF u = <<>> \/ ~IsDigit(Head(u)) THEN NaN
     ELSE IF neg THEN Num(0 - LeadingDigits(u, 0)) ELSE Num(LeadingDigits(u, 0))

\* ------------------------------------------------------------------------
\* Setup wizard
\* ------------------------------------------------------------------------

\* An option label "id - Some words" as split(' ') sees it.
Opt(id, words) == <<id, "-">> \o words

ProjectTypeOptions == <<
  Opt("web", <<"Static", "website", "or", "SPA">>),
  Opt("api", <<"Backend", "API", "service">>),
  Opt("fullstack", <<"Full-stack", "application">>),
  Opt("mobile", <<"Mobile", "application">>),
  Opt("desktop", <<"Desktop", "application">>) >>

FrameworkOptions == <<
  Opt("react", <<"React">>), Opt("nextjs", <<"Next.js">>),
  Opt("vue", <<"Vue.js">>), Opt("angular", <<"Angular">>),
  Opt("svelte", <<"Svelte/SvelteKit">>),
  Opt("vanilla", <<"Vanilla", "HTML/CSS/JS">>),
  Opt("node", <<"Node.js">>), Opt("python", <<"Python">>),
  Opt("dotnet", <<".NET">>), Opt("other", <<"Other/Custom">>) >>

ProdOptions == <<
  Opt("firebase", <<"Firebase", "Hosting">>),
  Opt("aws", <<"AWS", "S3", "+", "CloudFront">>),
  Opt("azure", <<"Azure", "Storage", "+", "CDN">>),
  Opt("vercel", <<"Vercel">>),
  Opt("netlify", <<"Netlify">>),
  Opt("gcp", <<"Google", "Cloud", "Platform">>),
  Opt("custom", <<"Custom/Self-hosted">>) >>

StagingOptions == <<
  Opt("firebase", <<"Firebase", "Hosting">>),
  Opt("aws", <<"AWS", "S3", "+", "CloudFront">>),
  Opt("azure", <<"Azure", "Storage", "+", "CDN">>),
  Opt("vercel", <<"Vercel">>),
  Opt("netlify", <<"Netlify">>),
  Opt("same", <<"Same", "as", "production">>) >>

DevOptions == <<
  Opt("firebase", <<"Firebase", "Hosting">>),
  Opt("vercel", <<"Vercel">>),
  Opt("netlify", <<"Netlify">>),
  Opt("local", <<"Local", "only">>) >>

NotificationOptions == <<
  Opt("slack", <<"Slack">>), Opt("discord", <<"Discord">>),
  Opt("email", <<"Email">>), Opt("teams", <<"Microsoft", "Teams">>) >>

\* string literal of one word, as the same split would see it
Lit(word) == <<word>>

\* answers typed at a "Select (number):" prompt
SelAnswers == { <<>>, <<"a">>, <<"0">>, <<"1">>, <<"2">>, <<"3">>, <<"4">>,
                <<"5">>, <<"6">>, <<"7">>, <<"1", "0">> }
\* answers typed at a free-text prompt
TextAnswers == {"", "v"}
\* answers typed at a (y/n) prompt
ConfirmAnswers == {"", "Y", "yes", "n"}

toLowerCase(s) == CASE s = "Y" -> "y" [] s = "YES" -> "yes" [] OTHER -> s

\* a selection that takes the last option for a number that is too large
selectIndexClamped(options, answer) ==
  LET n == parseInt(answer)
      index == IF n = NaN THEN NaN ELSE Num(n[1] - 1)
  IN IF index # NaN /\ index[1] >= 0
     THEN (IF index[1] < Len(options) THEN index[1] ELSE Len(options) - 1)
     ELSE 0

\* position (0-based) selectOption settles on
selectIndex(options, answer) ==
  LET n == parseInt(answer)
      index == IF n = NaN THEN NaN ELSE Num(n[1] - 1)
  IN IF index # NaN /\ index[1] >= 0 /\ index[1] < Len(options) THEN index[1] ELSE 0

selectOption(options, answer) == options[selectIndex(options, answer) + 1]

confirm(answer, defaultValue) ==
  IF answer = "" THEN defaultValue
  ELSE toLowerCase(answer) = "y" \/ toLowerCase(answer) = "yes"

\* a || b on strings
OrElse(a, b) == IF a = "" THEN b ELSE a

\* number of questions getProviderConfig asks for a provider type
NumQuestions(type) ==
  CASE type = "firebase" -> 2 [] type = "aws" -> 3 [] type = "azure" -> 3
    [] type = "vercel" -> 2 [] type = "netlify" -> 1 [] type = "custom" -> 1
    [] OTHER -> 0

\* getProviderConfig: ans is the sequence of answers to its questions
getProviderConfig(provider, ans) ==
  LET type == Head(provider)
      config == [type |-> type]
  IN CASE type = "firebase" ->
            [projectId |-> ans[1], site |-> OrElse(ans[2], ans[1])] @@ config
       [] type = "aws" ->
            [bucket |-> ans[1], region |-> OrElse(ans[2], "us-east-1"),
             cloudfront |-> ans[3]] @@ config
       [] type = "azure" ->
            [storageAccount |-> ans[1], resourceGroup |-> ans[2],
             container |-> OrElse(ans[3], "$web")] @@ config
       [] type = "vercel" ->
            [orgId |-> ans[1], projectName |-> ans[2]] @@ config
       [] type = "netlify" -> [siteId |-> ans[1]] @@ config
       [] type = "custom" ->
            [deployScript |-> OrElse(ans[1], ".cicd/deploy.sh")] @@ config
       [] OTHER -> config

\* the answer sequences a provider's questions receive: every question left
\* blank, or every question answered
ConfigAnswers(provider) ==
  {[i \in 1..NumQuestions(Head(provider)) |-> t] : t \in TextAnswers}

\* Set.add on an insertion-ordered set
SetAdd(s, x) == IF x \in Range(s) THEN s ELSE Append(s, x)

\* an array push that keeps duplicates
ArrayPush(s, x) == Append(s, x)

secretsAdd(s, x) == SetAdd(s, x)

RECURSIVE AddAll(_, _)
AddAll(s, xs) == IF xs = <<>> THEN s ELSE AddAll(secretsAdd(s, Head(xs)), Tail(xs))

\* the switch of getRequiredSecrets on provider.type
SecretsOfType(type) ==
  CASE type = "firebase" -> <<"FIREBASE_TOKEN">>
    [] type = "aws" -> <<"AWS_ACCESS_KEY_ID", "AWS_SECRET_ACCESS_KEY">>
    [] type = "azure" -> <<"AZURE_CREDENTIALS">>
    [] type = "vercel" -> <<"VERCEL_TOKEN">>
    [] type = "netlify" -> <<"NETLIFY_AUTH_TOKEN", "NETLIFY_SITE_ID">>
    [] OTHER -> <<>>

EnvOrder == <<"production", "staging", "development">>

RECURSIVE ProviderSecrets(_, _, _)
\* the forEach over Object.values(config.providers), in insertion order
ProviderSecrets(providers, names, acc) ==
  IF names = <<>> THEN acc
  ELSE IF Head(names) \in DOMAIN providers
       THEN ProviderSecrets(providers, Tail(names),
                            AddAll(acc, SecretsOfType(providers[Head(names)].type)))
       ELSE ProviderSecrets(providers, Tail(names), acc)

getRequiredSecrets(config) ==
  LET secrets == ProviderSecrets(config.providers, EnvOrder, <<>>)
      ntype == IF "type" \in DOMAIN config.notifications
               THEN config.notifications.type ELSE <<>>
  IN IF ntype = Lit("slack") THEN secretsAdd(secrets, "SLACK_WEBHOOK")
     ELSE IF ntype = Lit("discord") THEN secretsAdd(secrets, "DISCORD_WEBHOOK")
     ELSE secrets

\* generateEnvExample: the variable names of the lines after the heading
generateEnvExample(env) ==
  CASE env.type = "firebase" -> <<"FIREBASE_TOKEN", "FIREBASE_PROJECT">>
    [] env.type = "aws" ->
         <<"AWS_ACCESS_KEY_ID", "AWS_SECRET_ACCESS_KEY", "AWS_REGION", "AWS_S3_BUCKET">>
         \o (IF env.cloudfront # "" THEN <<"AWS_CLOUDFRONT_ID">> ELSE <<>>)
    [] env.type = "azure" ->
         <<"AZURE_CREDENTIALS", "AZURE_STORAGE_ACCOUNT", "AZURE_RESOURCE_GROUP">>
    [] env.type = "vercel" ->
         <<"VERCEL_TOKEN">> \o (IF env.orgId # "" THEN <<"VERCEL_ORG_ID">> ELSE <<>>)
    [] env.type = "netlify" -> <<"NETLIFY_AUTH_TOKEN", "NETLIFY_SITE_ID">>
    [] OTHER -> <<>>

\* generateWorkflow: the provider written into deploy.yml
generateWorkflow(config) ==
  IF "production" \in DOMAIN config.providers
  THEN config.providers["production"].type ELSE "firebase"

NoFiles == [n \in {} |-> None]

WInit ==
  /\ wpc = "project"
  /\ wloc = [stage |-> "start"]
  /\ environments = <<>>
  /\ picked = [q \in {} |-> 0]
  /\ console = {}
  /\ files = NoFiles
  /\ secretsShown = <<>>

\* ---- selectOption on its own ----

MaxAnswerLen == 3
AnswerChars == {"0", "1", "2", "7", "-", "+", " ", ".", "a"}
TypedAnswers == UNION {[1..n -> AnswerChars] : n \in 0..MaxAnswerLen}

\* a call selectOption(prompt, options) waiting at its question
SelectInit ==
  /\ wpc = "selectOption"
  /\ \E options \in {ProdOptions, StagingOptions, DevOptions}, answer \in TypedAnswers :
       wloc = [options |-> options, answer |-> answer, asked |-> 0, returned |-> <<>>]
  /\ environments = <<>>
  /\ picked = [q \in {} |-> 0]
  /\ console = {}
  /\ files = NoFiles
  /\ secretsShown = <<>>

\* lines 275-289: the menu is printed, the one question asked, a value returned
SelectOption ==
  /\ wpc = "selectOption"
  /\ wloc' = [wloc EXCEPT !.asked = wloc.asked + 1,
                          !.returned = selectOption(wloc.options, wloc.answer)]
  /\ console' = console \cup {"Select (number): "}
  /\ wpc' = "returned"
  /\ UNCHANGED <<environments, picked, files, secretsShown, dvars, lvars>>

\* scripted answers to the project, build, testing and advanced questions
ProjectScripts == { <<"", <<>>, <<>>>>, <<"app", <<"2">>, <<"7">>>> }
BuildScripts == { <<"", "", "">>, <<"make", "out", "20">> }
ThresholdAnswers == { <<>>, <<"9", "0">> }
TestingConfirms == {"", "y"}

\* lines 41-64
AskProject ==
  /\ wpc = "project"
  /\ \E s \in ProjectScripts :
       wloc' = [projectName |-> OrElse(s[1], "cwd"),
                projectType |-> selectOption(ProjectTypeOptions, s[2]),
                framework |-> selectOption(FrameworkOptions, s[3])]
  /\ wpc' = "build"
  /\ UNCHANGED <<environments, picked, console, files, secretsShown, dvars, lvars>>

\* lines 66-71
AskBuild ==
  /\ wpc = "build"
  /\ \E s \in BuildScripts :
       wloc' = [buildCommand |-> OrElse(s[1], "npm run build"),
                outputDir |-> OrElse(s[2], "dist"),
                nodeVersion |-> OrElse(s[3], "18")] @@ wloc
  /\ wpc' = "testing"
  /\ UNCHANGED <<environments, picked, console, files, secretsShown, dvars, lvars>>

\* lines 73-86
AskTesting ==
  /\ wpc = "testing"
  /\ \E a \in TestingConfirms, t \in {""}, c \in {"y"}, th \in ThresholdAnswers :
       LET enableTesting == confirm(a, FALSE)
           enableCoverage == enableTesting /\ confirm(c, FALSE)
       IN /\ ~enableCoverage => th = <<>>
          /\ wloc' = [enableTesting |-> enableTesting,
                      testCommand |-> IF enableTesting THEN OrElse(t, "npm test")
                                      ELSE "npm test",
                      coverageThreshold |->
                        IF enableCoverage
                        THEN parseInt(IF th = <<>> THEN <<"8", "0">> ELSE th)
                        ELSE Num(80)] @@ wloc
  /\ wpc' = "production"
  /\ UNCHANGED <<environments, picked, console, files, secretsShown, dvars, lvars>>

\* lines 93-106
AskProduction ==
  /\ wpc = "production"
  /\ \E a \in SelAnswers :
       LET prodProvider == selectOption(ProdOptions, a) IN
       \E ans \in ConfigAnswers(prodProvider) :
         LET prodConfig == getProviderConfig(prodProvider, ans) IN
         /\ wloc' = [prodProvider |-> prodProvider, prodConfig |-> prodConfig] @@ wloc
         /\ environments' = Append(environments,
               prodConfig @@ [name |-> "production", provider |-> prodProvider])
         /\ picked' = [production |-> selectIndex(ProdOptions, a) + 1] @@ picked
  /\ wpc' = "staging"
  /\ UNCHANGED <<console, files, secretsShown, dvars, lvars>>

\* lines 108-125
AskStaging ==
  /\ wpc = "staging"
  /\ \E c \in ConfirmAnswers :
       IF confirm(c, FALSE)
       THEN \E a \in SelAnswers :
              LET stagingProvider == selectOption(StagingOptions, a)
                  same == stagingProvider = Lit("same")
              IN \E ans \in (IF same THEN {<<>>} ELSE ConfigAnswers(stagingProvider)) :
                   LET stagingConfig ==
                         IF same THEN [environment |-> "staging"] @@ wloc.prodConfig
                         ELSE getProviderConfig(stagingProvider, ans)
                   IN /\ environments' = Append(environments,
                           stagingConfig @@
                           [name |-> "staging",
                            provider |-> IF same THEN wloc.prodProvider
                                         ELSE stagingProvider])
                      /\ picked' = [staging |-> selectIndex(StagingOptions, a) + 1]
                                   @@ picked
       ELSE UNCHANGED <<environments, picked>>
  /\ wpc' = "development"
  /\ UNCHANGED <<wloc, console, files, secretsShown, dvars, lvars>>

\* lines 127-141
AskDevelopment ==
  /\ wpc = "development"
  /\ \E c \in ConfirmAnswers :
       IF confirm(c, FALSE)
       THEN \E a \in SelAnswers :
              LET devProvider == selectOption(DevOptions, a) IN
              /\ picked' = [development |-> selectIndex(DevOptions, a) + 1] @@ picked
              /\ IF devProvider # Lit("local")
                 THEN \E ans \in ConfigAnswers(devProvider) :
                        environments' = Append(environments,
                          getProviderConfig(devProvider, ans) @@
                          [name |-> "development", provider |-> devProvider])
                 ELSE UNCHANGED environments
       ELSE UNCHANGED <<environments, picked>>
  /\ wpc' = "advanced"
  /\ UNCHANGED <<wloc, console, files, secretsShown, dvars, lvars>>

AdvancedScripts == { <<"", "", "">>, <<"n", "y", "n">> }

\* lines 143-168
AskAdvanced ==
  /\ wpc = "advanced"
  /\ \E s \in AdvancedScripts, c \in ConfirmAnswers :
       LET enableNotifications == confirm(c, FALSE)
           adv == [enableCaching |-> confirm(s[1], TRUE),
                   enableSecurityScan |-> confirm(s[2], TRUE),
                   enableMetrics |-> confirm(s[3], TRUE)]
       IN IF enableNotifications
          THEN \E a \in SelAnswers :
                 LET notificationType == selectOption(NotificationOptions, a) IN
                 /\ picked' = [notification |-> selectIndex(NotificationOptions, a) + 1]
                              @@ picked
                 /\ console' =
                      IF notificationType = Lit("slack")
                      THEN console \cup {"Add webhook URL as secret: SLACK_WEBHOOK"}
                      ELSE IF notificationType = Lit("discord")
                      THEN console \cup {"Add webhook URL as secret: DISCORD_WEBHOOK"}
                      ELSE console
                 /\ wloc' = adv @@ [notificationConfig |->
                                      [type |-> notificationType, enabled |-> TRUE]]
                            @@ wloc
          ELSE /\ wloc' = adv @@ [notificationConfig |-> [x \in {} |-> None]] @@ wloc
               /\ UNCHANGED <<picked, console>>
  /\ wpc' = "generate"
  /\ UNCHANGED <<environments, files, secretsShown, dvars, lvars>>

\* lines 171-202: the config object
buildConfig(loc, envs) ==
  [project |-> [name |-> loc.projectName,
                type |-> Head(loc.projectType),
                framework |-> Head(loc.framework)],
   build |-> [command |-> loc.buildCommand, outputDir |-> loc.outputDir,
              nodeVersion |-> loc.nodeVersion],
   testing |-> [enabled |-> loc.enableTesting, command |-> loc.testCommand,
                coverage |-> [enabled |-> (loc.coverageThreshold # NaN
                                           /\ loc.coverageThreshold[1] > 0),
                              threshold |-> loc.coverageThreshold]],
   providers |-> [n \in {envs[i].name : i \in 1..Len(envs)} |->
                    envs[CHOOSE i \in 1..Len(envs) : envs[i].name = n
                           /\ \A j \in 1..Len(envs) : envs[j].name = n => j <= i]],
   notifications |-> loc.notificationConfig,
   advanced |-> [caching |-> loc.enableCaching,
                 securityScan |-> loc.enableSecurityScan,
                 metrics |-> loc.enableMetrics]]

EnvFileName(name) ==
  CASE name = "production" -> ".cicd/production.env.example"
    [] name = "staging" -> ".cicd/staging.env.example"
    [] name = "development" -> ".cicd/development.env.example"

\* lines 170-266
Generate ==
  /\ wpc = "generate"
  /\ LET config == buildConfig(wloc, environments) IN
     /\ files' = [f \in {".cicd/config.json", ".github/workflows/deploy.yml"}
                       \cup {EnvFileName(environments[i].name) : i \in 1..Len(environments)} |->
                   IF f = ".cicd/config.json" THEN config
                   ELSE IF f = ".github/workflows/deploy.yml" THEN generateWorkflow(config)
                   ELSE generateEnvExample(
                          environments[CHOOSE i \in 1..Len(environments) :
                                         EnvFileName(environments[i].name) = f])]
     /\ secretsShown' = getRequiredSecrets(config)
  /\ wpc' = "done"
  /\ UNCHANGED <<wloc, environments, picked, console, dvars, lvars>>


\* ---- what the user picked, read off the menus as printed ----

ProdIds == <<"firebase", "aws", "azure", "vercel", "netlify", "gcp", "custom">>
StagingIds == <<"firebase", "aws", "azure", "vercel", "netlify", "same">>
DevIds == <<"firebase", "vercel", "netlify", "local">>
NotificationIds == <<"slack", "discord", "email", "teams">>
ProviderIds == Range(ProdIds)

\* the provider the user chose for an environment they configured
ChosenProvider(name) ==
  CASE name = "production" -> ProdIds[picked.production]
    [] name = "staging" ->
         IF StagingIds[picked.staging] = "same" THEN ProdIds[picked.production]
         ELSE StagingIds[picked.staging]
    [] name = "development" -> DevIds[picked.development]

\* the environments the user asked to have deployed somewhere
ConfiguredEnvs ==
  {"production"}
  \cup (IF "staging" \in DOMAIN picked THEN {"staging"} ELSE {})
  \cup (IF "development" \in DOMAIN picked /\ DevIds[picked.development] # "local"
        THEN {"development"} ELSE {})

\* the provider-to-secret table of the README and of the claim
SecretTable(id) ==
  CASE id = "firebase" -> {"FIREBASE_TOKEN"}
    [] id = "aws" -> {"AWS_ACCESS_KEY_ID", "AWS_SECRET_ACCESS_KEY"}
    [] id = "azure" -> {"AZURE_CREDENTIALS"}
    [] id = "vercel" -> {"VERCEL_TOKEN"}
    [] id = "netlify" -> {"NETLIFY_AUTH_TOKEN", "NETLIFY_SITE_ID"}
    [] OTHER -> {}

WebhookSecrets == {"SLACK_WEBHOOK", "DISCORD_WEBHOOK"}

\* C1: when the wizard has finished, the provider-derived secrets it lists are
\* exactly the union of the table's secrets over the configured environments'
\* providers, and no secret is listed twice.
C1_SecretsMatchTable ==
  wpc = "done" =>
    /\ Range(secretsShown) \ WebhookSecrets
         = UNION {SecretTable(ChosenProvider(n)) : n \in ConfiguredEnvs}
    /\ Cardinality(Range(secretsShown)) = Len(secretsShown)

\* C1 witness: production and staging both on AWS, development on Netlify
C1_Witness ==
  /\ wpc = "done"
  /\ picked.production = 2
  /\ "staging" \in DOMAIN picked /\ picked.staging = 2
  /\ "development" \in DOMAIN picked /\ picked.development = 3
  /\ secretsShown = <<"AWS_ACCESS_KEY_ID", "AWS_SECRET_ACCESS_KEY",
                      "NETLIFY_AUTH_TOKEN", "NETLIFY_SITE_ID">>

\* C2: every entry under providers in .cicd/config.json declares the provider
\* the user selected for that environment, one of the provider identifiers,
\* in its provider field (the identifier the label starts with) and in type.
C2_ProviderFieldMatches ==
  wpc = "done" =>
    LET providers == files[".cicd/config.json"].providers IN
    \A n \in DOMAIN providers :
      /\ ChosenProvider(n) \in ProviderIds
      /\ Head(providers[n].provider) = ChosenProvider(n)
      /\ providers[n].type = ChosenProvider(n)

\* C10: choosing Slack (Discord) makes notifications.type identify slack
\* (discord), prints the hint for SLACK_WEBHOOK (DISCORD_WEBHOOK) and lists
\* that secret; with email, teams or no notifications no webhook secret is
\* listed.
C10_WebhookSecret ==
  wpc = "done" =>
    LET chosen == IF "notification" \in DOMAIN picked
                  THEN NotificationIds[picked.notification] ELSE None
        ntf == files[".cicd/config.json"].notifications
    IN /\ chosen = "slack" =>
            /\ Head(ntf.type) = "slack"
            /\ "Add webhook URL as secret: SLACK_WEBHOOK" \in console
            /\ "SLACK_WEBHOOK" \in Range(secretsShown)
       /\ chosen = "discord" =>
            /\ Head(ntf.type) = "discord"
            /\ "Add webhook URL as secret: DISCORD_WEBHOOK" \in console
            /\ "DISCORD_WEBHOOK" \in Range(secretsShown)
       /\ chosen \notin {"slack", "discord"} =>
            Range(secretsShown) \cap WebhookSecrets = {}

\* ------------------------------------------------------------------------
\* Documentation generator: parseComponent
\* The component file is a sequence of tokens: words, single punctuation
\* characters, " " and "\n".
\* ------------------------------------------------------------------------

MaxDecls == 3
FieldNames == {"a", "b", "c"}
InnerNames == {"x"}
Words == FieldNames \cup InnerNames \cup {"T", "interface", "XProps"}
IsSpace(t) == t \in {" ", "\n"}
IsWord(t) == t \in Words
\* \w+Props
IsPropsWord(t) == t = "XProps"

\* ---- the component files the generator is run on ----

\* a field of plain type: "  name?: T;"
FlatLine(d) ==
  <<" ", d.name>> \o (IF d.optional THEN <<"?">> ELSE <<>>)
  \o <<":", " ", "T", ";", "\n">>

RECURSIVE FlatLines(_)
FlatLines(ds) == IF ds = <<>> THEN <<>> ELSE FlatLine(Head(ds)) \o FlatLines(Tail(ds))

RECURSIVE InlineFields(_)
InlineFields(ds) ==
  IF ds = <<>> THEN <<>>
  ELSE <<Head(ds).name>> \o (IF Head(ds).optional THEN <<"?">> ELSE <<>>)
       \o <<":", " ", "T", ";", " ">> \o InlineFields(Tail(ds))

\* one declaration of the interface as TypeScript source
DeclText(d) ==
  CASE d.layout = "flat" -> FlatLine(d)
    [] d.layout = "block" ->
         <<" ", d.name>> \o (IF d.optional THEN <<"?">> ELSE <<>>)
         \o <<":", " ", "{", "\n">> \o FlatLines(d.inner) \o <<" ", "}", ";", "\n">>
    [] d.layout = "inline" ->
         <<" ", d.name>> \o (IF d.optional THEN <<"?">> ELSE <<>>)
         \o <<":", " ", "{", " ">> \o InlineFields(d.inner) \o <<"}", ";", "\n">>

RECURSIVE DeclsText(_)
DeclsText(ds) == IF ds = <<>> THEN <<>> ELSE DeclText(Head(ds)) \o DeclsText(Tail(ds))

SourceText(ds) ==
  <<"interface", " ", "XProps", " ", "{", "\n">> \o DeclsText(ds) \o <<"}", "\n">>

InnerDecls == { <<[name |-> "x", optional |-> o, layout |-> "flat"]>> : o \in BOOLEAN }

Decl == [name : FieldNames, optional : BOOLEAN, layout : {"flat"}, inner : {<<>>}]
        \cup [name : FieldNames, optional : BOOLEAN, layout : {"block", "inline"},
              inner : InnerDecls]

DeclSeqs == UNION {[1..n -> Decl] : n \in 0..MaxDecls}

\* TypeScript rejects an interface that declares a name twice
Declarations == {ds \in DeclSeqs : \A i, j \in 1..Len(ds) : ds[i].name = ds[j].name => i = j}

\* ---- parseComponent ----

RECURSIVE SkipSpace(_, _)
\* first position >= i of s that holds no white space (Len(s) + 1 if none)
SkipSpace(s, i) == IF i <= Len(s) /\ IsSpace(s[i]) THEN SkipSpace(s, i + 1) ELSE i

RECURSIVE FirstAt(_, _, _)
\* first position >= i of s holding token t (0 if none)
FirstAt(s, t, i) ==
  IF i > Len(s) THEN 0 ELSE IF s[i] = t THEN i ELSE FirstAt(s, t, i + 1)

\* a regular expression match: NoMatch, or Match(m) holding what matched
NoMatch == <<>>
Match(m) == <<m>>

\* /interface\s+\w+Props\s*{([^}]+)}/ tried at position i: its capture
InterfaceAt(s, i) ==
  IF i > Len(s) \/ s[i] # "interface" THEN NoMatch
  ELSE LET j == SkipSpace(s, i + 1) IN
       IF j = i + 1 \/ j > Len(s) \/ ~IsPropsWord(s[j]) THEN NoMatch
       ELSE LET k == SkipSpace(s, j + 1) IN
            IF k > Len(s) \/ s[k] # "{" THEN NoMatch
            ELSE LET e == FirstAt(s, "}", k + 1) IN
                 IF e = 0 \/ e = k + 1 THEN NoMatch
                 ELSE Match(SubSeq(s, k + 1, e - 1))

RECURSIVE PropsMatch(_, _)
\* code.match(...): the capture of the leftmost match
PropsMatch(s, i) ==
  IF i > Len(s) THEN NoMatch
  ELSE IF InterfaceAt(s, i) # NoMatch THEN InterfaceAt(s, i)
  ELSE PropsMatch(s, i + 1)

RECURSIVE SplitLines(_, _)
\* split('\n'); cur is the line read so far
SplitLines(s, cur) ==
  IF s = <<>> THEN <<cur>>
  ELSE IF Head(s) = "\n" THEN <<cur>> \o SplitLines(Tail(s), <<>>)
  ELSE SplitLines(Tail(s), Append(cur, Head(s)))

RECURSIVE Trim(_)
Trim(s) ==
  IF s # <<>> /\ IsSpace(Head(s)) THEN Trim(Tail(s))
  ELSE IF s # <<>> /\ IsSpace(s[Len(s)]) THEN Trim(SubSeq(s, 1, Len(s) - 1))
  ELSE s

RECURSIVE UpTo(_, _)
\* the longest prefix of s without token t
UpTo(s, t) == IF s = <<>> \/ Head(s) = t THEN <<>> ELSE <<Head(s)>> \o UpTo(Tail(s), t)

\* line.match(/^\s*(\w+)(\?)?:\s*([^;]+)/): the prop it yields
PropMatch(line) ==
  LET i == SkipSpace(line, 1) IN
  IF i > Len(line) \/ ~IsWord(line[i]) THEN NoMatch
  ELSE LET q == i + 1 <= Len(line) /\ line[i + 1] = "?"
           c == IF q THEN i + 2 ELSE i + 1
       IN IF c > Len(line) \/ line[c] # ":" THEN NoMatch
          ELSE LET rest == UpTo(SubSeq(line, c + 1, Len(line)), ";") IN
               IF rest = <<>> THEN NoMatch
               ELSE Match([name |-> line[i], required |-> ~q, type |-> Trim(rest)])

RECURSIVE PropsOfLines(_)
PropsOfLines(lines) ==
  IF lines = <<>> THEN <<>>
  ELSE LET line == Head(lines) IN
       IF Trim(line) = <<>> THEN PropsOfLines(Tail(lines))
       ELSE PropMatch(line) \o PropsOfLines(Tail(lines))

parseComponent(src) ==
  LET propsMatch == PropsMatch(src, 1) IN
  [name |-> "X",
   props |-> IF propsMatch = NoMatch THEN <<>>
             ELSE PropsOfLines(SplitLines(propsMatch[1], <<>>)),
   methods |-> <<>>, description |-> "", examples |-> <<>>]

\* docs/COMPONENT_INDEX.md before main() writes it
NotWritten == [written |-> FALSE, sections |-> <<>>]

\* main() not running
MIdle ==
  /\ mpc = "idle" /\ fsys = None /\ componentFiles = <<>> /\ mi = 0
  /\ components = <<>> /\ docs = NoFiles /\ indexFile = NotWritten /\ mlog = <<>>

DocInit ==
  /\ dpc = "start"
  /\ decls \in Declarations
  /\ code = SourceText(decls)
  /\ componentInfo = None
  /\ MIdle

DocParse ==
  /\ dpc = "start"
  /\ componentInfo' = parseComponent(code)
  /\ dpc' = "parsed"
  /\ UNCHANGED <<decls, code, mvars, ivars, wvars, lvars>>

\* C3: props holds every declared field of the interface exactly once, in
\* order, required iff the field has no "?"; fields after a nested block are
\* extracted and the fields inside a nested block are not reported.
C3_PropsAreDeclaredFields ==
  dpc = "parsed" =>
    /\ Len(componentInfo.props) = Len(decls)
    /\ \A i \in 1..Len(decls) :
         /\ componentInfo.props[i].name = decls[i].name
         /\ componentInfo.props[i].required = ~decls[i].optional

\* ------------------------------------------------------------------------
\* main() of the documentation generator
\* A file path is relative to CONFIG.componentsDir and is a sequence of
\* tokens: directory names, "/", the base name and its suffixes.
\* ------------------------------------------------------------------------

MaxFiles == 3

ComponentDirs == {<<>>, <<"buttons", "/", "icons">>, <<"Forms">>}
ComponentBases == {"Button", "Card"}

FilePath(dir, name) == (IF dir = <<>> THEN <<>> ELSE dir \o <<"/">>) \o name

\* the files under src/components
TreeFiles ==
  {FilePath(d, <<b, ".tsx">>) : d \in ComponentDirs, b \in ComponentBases}
  \cup {FilePath(<<>>, <<"Button", ".test", ".tsx">>)}

RECURSIVE LastSlash(_, _)
\* position of the last "/" of p at or before i (0 if none)
LastSlash(p, i) == IF i = 0 THEN 0 ELSE IF p[i] = "/" THEN i ELSE LastSlash(p, i - 1)

\* path.basename(filePath)
basename(p) == SubSeq(p, LastSlash(p, Len(p)) + 1, Len(p))

\* path.extname(filePath)
extname(p) == IF p # <<>> /\ p[Len(p)] \in {".tsx", ".jsx"} THEN <<p[Len(p)]>> ELSE <<>>

\* path.basename(filePath, path.extname(filePath))
basenameNoExt(p) ==
  LET b == basename(p) IN SubSeq(b, 1, Len(b) - Len(extname(p)))

\* path.dirname(relativePath).split(path.sep)[0]; dirname of a bare file name is "."
firstSegment(p) == IF LastSlash(p, Len(p)) = 0 THEN "." ELSE p[1]

\* file.endsWith('.tsx') || file.endsWith('.jsx'), without .test. and .stories.
IsComponentFile(p) ==
  /\ extname(p) # <<>>
  /\ \A i \in 1..Len(basename(p)) : basename(p)[i] \notin {".test", ".stories"}

\* scanComponents(CONFIG.componentsDir): the listing in readdir order, filtered
scanComponents(fs) == SelectSeq(fs.files, IsComponentFile)

\* the text of a component file
SourceOf(p) ==
  IF basenameNoExt(p) = <<"Button">>
  THEN SourceText(<<[name |-> "a", optional |-> FALSE, layout |-> "flat", inner |-> <<>>]>>)
  ELSE <<>>

\* parseComponent(filePath) followed by componentInfo.filePath = filePath
parseFile(p) ==
  LET info == parseComponent(SourceOf(p)) IN
  [name |-> basenameNoExt(p), props |-> info.props, methods |-> info.methods,
   description |-> info.description, examples |-> info.examples, filePath |-> p]

\* generateComponentDoc: the title, the props table (absent when there are no
\* props) and the links, which all carry the component's name
generateComponentDoc(info) ==
  [title |-> info.name,
   propsTable |-> [i \in 1..Len(info.props) |->
                     <<info.props[i].name, info.props[i].type,
                       IF info.props[i].required THEN "Yes" ELSE "No">>],
   links |-> info.name]

\* the try block of main() for one file: what it leaves behind and whether it threw
tryBlock(fs, p, comps, ds) ==
  IF p \in fs.unreadable
  THEN [threw |-> TRUE, components |-> comps, docs |-> ds]
  ELSE LET info == parseFile(p)
           pushed == Append(comps, info)
       IN IF info.name \in fs.unwritable
          THEN [threw |-> TRUE, components |-> pushed, docs |-> ds]
          ELSE [threw |-> FALSE, components |-> pushed,
                docs |-> [n \in DOMAIN ds \cup {info.name} |->
                            IF n = info.name THEN generateComponentDoc(info) ELSE ds[n]]]

MLine(kind, p) == [kind |-> kind, file |-> p]

\* a catch block that lets the error escape the forEach
catchRethrow(p, log) ==
  [mpc |-> "rejected", mlog |-> Append(log, MLine("Error processing", p))]

\* catch (error) { console.error(...) }: the loop goes on
catchBlock(p, log) ==
  [mpc |-> "loop", mlog |-> Append(log, MLine("Error processing", p))]

\* categories[category].push(component) over the whole array: the category of
\* each component; "." is truthy, so || 'root' applies to the empty string only
categoryOf(info) ==
  LET seg == firstSegment(info.filePath) IN IF seg = "" THEN "root" ELSE seg

\* UTF-16 code unit of the first character, which orders the category names used
FirstCodeUnit(cat) ==
  CASE cat = "." -> 46 [] cat = "Forms" -> 70 [] cat = "buttons" -> 98 [] cat = "root" -> 114

RECURSIVE sortKeys(_)
\* Object.keys(categories).sort()
sortKeys(keys) ==
  IF keys = {} THEN <<>>
  ELSE LET k == CHOOSE x \in keys : \A y \in keys : FirstCodeUnit(x) <= FirstCodeUnit(y)
       IN <<k>> \o sortKeys(keys \ {k})

\* category.charAt(0).toUpperCase() + category.slice(1)
capitalize(cat) ==
  CASE cat = "." -> "." [] cat = "Forms" -> "Forms" [] cat = "buttons" -> "Buttons"
    [] cat = "root" -> "Root"

\* the entry "- [name](./components/name.md)" of one component
indexEntry(info) == [name |-> info.name, docPath |-> info.name, description |-> info.description]

RECURSIVE entriesOf(_, _)
entriesOf(comps, cat) ==
  IF comps = <<>> THEN <<>>
  ELSE (IF categoryOf(Head(comps)) = cat THEN <<indexEntry(Head(comps))>> ELSE <<>>)
       \o entriesOf(Tail(comps), cat)

\* generateIndex(components): the category sections, in order
generateIndex(comps) ==
  LET keys == sortKeys({categoryOf(comps[i]) : i \in 1..Len(comps)}) IN
  [k \in 1..Len(keys) |-> [heading |-> capitalize(keys[k]), items |-> entriesOf(comps, keys[k])]]

\* entries of one directory are listed together by scanComponents
Contiguous(fl) ==
  \A i, j, k \in 1..Len(fl) :
    (i < j /\ j < k /\ firstSegment(fl[i]) = firstSegment(fl[k]) /\ firstSegment(fl[i]) # ".")
      => firstSegment(fl[j]) = firstSegment(fl[i])

Listings ==
  {fl \in UNION {[1..n -> TreeFiles] : n \in 0..MaxFiles} :
     /\ \A i, j \in 1..Len(fl) : fl[i] = fl[j] => i = j
     /\ Contiguous(fl)}

MainInit ==
  /\ mpc = "start"
  /\ \E fl \in Listings :
       \E ur \in SUBSET Range(fl) :
         \E uw \in SUBSET {<<b>> : b \in ComponentBases} :
           \E iw \in BOOLEAN :
             fsys = [files |-> fl, unreadable |-> ur, unwritable |-> uw, indexWritable |-> iw]
  /\ componentFiles = <<>> /\ mi = 0 /\ components = <<>>
  /\ docs = NoFiles /\ indexFile = NotWritten /\ mlog = <<>>
  /\ dpc = "idle" /\ decls = <<>> /\ code = <<>> /\ componentInfo = None

\* main(): from its first line to the start of the forEach
MainScan ==
  /\ mpc = "start"
  /\ componentFiles' = scanComponents(fsys)
  /\ mlog' = mlog \o <<MLine("Scanning", <<>>), MLine("Found", <<>>)>>
  /\ components' = <<>>
  /\ mi' = 1
  /\ mpc' = "loop"
  /\ UNCHANGED <<fsys, docs, indexFile, dpc, decls, code, componentInfo, ivars, wvars, lvars>>

\* one call of the forEach callback
ProcessFile ==
  /\ mpc = "loop" /\ mi <= Len(componentFiles)
  /\ LET p == componentFiles[mi]
         log == Append(mlog, MLine("Processing", basename(p)))
         r == tryBlock(fsys, p, components, docs)
         c == catchBlock(p, log)
     IN /\ components' = r.components
        /\ docs' = r.docs
        /\ mlog' = IF r.threw THEN c.mlog ELSE log
        /\ mpc' = IF r.threw THEN c.mpc ELSE "loop"
  /\ mi' = mi + 1
  /\ UNCHANGED <<fsys, componentFiles, indexFile, dpc, decls, code, componentInfo, ivars, wvars, lvars>>

\* main() after the forEach: the index, and the closing lines; a failed write
\* rejects main() and console.error prints it
WriteIndex ==
  /\ mpc = "loop" /\ mi > Len(componentFiles)
  /\ LET log == Append(mlog, MLine("Generating component index", <<>>)) IN
     IF fsys.indexWritable
     THEN /\ indexFile' = [written |-> TRUE, sections |-> generateIndex(components)]
          /\ mlog' = Append(log, MLine("complete", <<>>))
          /\ mpc' = "done"
     ELSE /\ indexFile' = indexFile
          /\ mlog' = Append(log, MLine("rejected", <<>>))
          /\ mpc' = "rejected"
  /\ UNCHANGED <<fsys, componentFiles, mi, components, docs, dpc, decls, code,
                 componentInfo, ivars, wvars, lvars>>


\* ------------------------------------------------------------------------
\* Navigation loaders: sidebar.js, admin-header.js, universal-header.js
\* Strings are sequences of tokens: single characters, and words that hold
\* none of the characters the code looks for.
\* ------------------------------------------------------------------------

\* an attribute or a value that may be missing: Absent, or Match(value)
Absent == <<>>
IsPresent(a) == a # Absent

\* s.includes(pat)
Includes(s, pat) ==
  \E i \in 0..(Len(s) - Len(pat)) : SubSeq(s, i + 1, i + Len(pat)) = pat

RECURSIVE Dirs2Path(_)
Dirs2Path(ds) == IF ds = <<>> THEN <<>> ELSE <<"/", Head(ds)>> \o Dirs2Path(Tail(ds))

\* the pathname of a page in directories ds; file "" is a directory index
PathOf(ds, file) == Dirs2Path(ds) \o <<"/">> \o (IF file = "" THEN <<>> ELSE <<file>>)

\* the string literal '/a/b/' of an includes() test
P(ds) == Dirs2Path(ds) \o <<"/">>

\* ---- sidebar.js ----

\* base.trim() is not empty
NonBlank(str) == \E i \in 1..Len(str) : str[i] # " "

\* base.replace(/\/$/, '')
StripSlash(str) ==
  IF str # <<>> /\ str[Len(str)] = "/" THEN SubSeq(str, 1, Len(str) - 1) ELSE str

\* the same tests with the admin root tested first
sidebarResolveAdminFirst(path) ==
  IF Includes(path, P(<<"admin">>)) THEN <<>>
  ELSE IF Includes(path, P(<<"admin", "development">>)) THEN <<".", ".", "/">>
  ELSE IF Includes(path, P(<<"admin", "contracts">>)) THEN <<".", ".", "/">>
  ELSE <<"admin", "/">>

\* the path heuristic of resolveBase
sidebarResolveByPath(path) ==
  IF Includes(path, P(<<"admin", "development">>)) THEN <<".", ".", "/">>
  ELSE IF Includes(path, P(<<"admin", "contracts">>)) THEN <<".", ".", "/">>
  ELSE IF Includes(path, P(<<"admin">>)) THEN <<>>
  ELSE <<"admin", "/">>

\* resolveBase of sidebar.js; dataBase is the data-base attribute
sidebarResolveBase(dataBase, path) ==
  IF IsPresent(dataBase) /\ dataBase[1] # <<>> /\ NonBlank(dataBase[1])
  THEN StripSlash(dataBase[1])
  ELSE sidebarResolveByPath(path)

Up(n, file) ==
  [i \in 1..(2 * n) |-> IF i % 2 = 1 THEN ".." ELSE "/"] \o <<"components", "/", file>>

\* the template URL injectSidebar requests
sidebarPath(path) ==
  IF Includes(path, P(<<"assiduousflip", "admin", "development">>))
     \/ Includes(path, P(<<"assiduousflip", "admin", "contracts">>))
  THEN Up(2, "sidebar.html")
  ELSE IF Includes(path, P(<<"admin", "development">>))
          \/ Includes(path, P(<<"admin", "contracts">>))
  THEN Up(2, "sidebar.html")
  ELSE IF Includes(path, P(<<"assiduousflip", "admin">>)) THEN Up(1, "sidebar.html")
  ELSE IF Includes(path, P(<<"admin">>)) \/ Includes(path, P(<<"client">>))
          \/ Includes(path, P(<<"docs">>))
  THEN Up(1, "sidebar.html")
  ELSE IF Includes(path, P(<<"assiduousflip">>)) THEN Up(0, "sidebar.html")
  ELSE Up(0, "sidebar.html")

\* ---- admin-header.js ----

adminResolveBase(dataBase) ==
  IF IsPresent(dataBase) /\ dataBase[1] # <<>> /\ NonBlank(dataBase[1])
  THEN StripSlash(dataBase[1])
  ELSE <<>>

\* the template URL injectHeader requests
headerPath(path) ==
  IF Includes(path, P(<<"assiduousflip", "admin", "development", "backups">>))
  THEN Up(3, "admin-header.html")
  ELSE IF Includes(path, P(<<"admin", "development", "backups">>))
  THEN Up(3, "admin-header.html")
  ELSE IF Includes(path, P(<<"assiduousflip", "admin", "development">>))
          \/ Includes(path, P(<<"assiduousflip", "admin", "contracts">>))
  THEN Up(2, "admin-header.html")
  ELSE IF Includes(path, P(<<"admin", "development">>))
          \/ Includes(path, P(<<"admin", "contracts">>))
  THEN Up(2, "admin-header.html")
  ELSE IF Includes(path, P(<<"assiduousflip", "admin">>)) THEN Up(1, "admin-header.html")
  ELSE IF Includes(path, P(<<"admin">>)) \/ Includes(path, P(<<"client">>))
          \/ Includes(path, P(<<"docs">>))
  THEN Up(1, "admin-header.html")
  ELSE IF Includes(path, P(<<"assiduousflip">>)) THEN Up(0, "admin-header.html")
  ELSE Up(0, "admin-header.html")

\* JSON.parse of the data-actions values the pages carry
JSONparse(str) ==
  CASE str = "[]" -> [ok |-> TRUE, kind |-> "array", items |-> <<>>]
    [] str = "[{\"label\":\"Add\",\"primary\":true}]" ->
         [ok |-> TRUE, kind |-> "array",
          items |-> <<[label |-> "Add", primary |-> TRUE, href |-> ""]>>]
    [] str = "[{\"label\":\"Add\"},{\"label\":\"Docs\",\"href\":\"/docs\"}]" ->
         [ok |-> TRUE, kind |-> "array",
          items |-> <<[label |-> "Add", primary |-> FALSE, href |-> ""],
                      [label |-> "Docs", primary |-> FALSE, href |-> "/docs"]>>]
    [] str = "null" -> [ok |-> TRUE, kind |-> "null", items |-> <<>>]
    [] str = "5" -> [ok |-> TRUE, kind |-> "number", items |-> <<>>]
    [] str = "{}" -> [ok |-> TRUE, kind |-> "object", items |-> <<>>]
    [] str = "\"x\"" -> [ok |-> TRUE, kind |-> "string", items |-> <<>>]
    [] OTHER -> [ok |-> FALSE, kind |-> "throw", items |-> <<>>]

EmptyArray == [ok |-> TRUE, kind |-> "array", items |-> <<>>]

\* a value is truthy in an if
Truthy(v) == v.kind \in {"array", "object", "string", "number"}

\* attr || fallback on an attribute holding a plain string
AttrOr(attr, fallback) == IF IsPresent(attr) /\ attr[1] # "" THEN attr[1] ELSE fallback

\* a parseConfig without the try/catch around JSON.parse: the exception
\* leaves onReady before injectHeader is called
parseConfigNoCatch(attrs) ==
  LET actionsData == attrs.actions
      parsed == IF IsPresent(actionsData) /\ actionsData[1] # ""
                THEN JSONparse(actionsData[1]) ELSE EmptyArray
  IN [title |-> AttrOr(attrs.title, "Admin Portal"),
      subtitle |-> AttrOr(attrs.subtitle, "Manage your platform efficiently"),
      searchPlaceholder |-> AttrOr(attrs.searchPlaceholder, "Search across all modules..."),
      actions |-> parsed,
      warned |-> FALSE]

\* parseConfig of admin-header.js: the config and whether the warning is logged
parseConfig(attrs) ==
  LET actionsData == attrs.actions
      parsed == IF IsPresent(actionsData) /\ actionsData[1] # ""
                THEN JSONparse(actionsData[1]) ELSE EmptyArray
  IN [title |-> AttrOr(attrs.title, "Admin Portal"),
      subtitle |-> AttrOr(attrs.subtitle, "Manage your platform efficiently"),
      searchPlaceholder |-> AttrOr(attrs.searchPlaceholder, "Search across all modules..."),
      actions |-> IF parsed.ok THEN parsed ELSE EmptyArray,
      warned |-> ~parsed.ok]

\* ---- templates and the DOM ----

BaseToken == <<"[", "[", "B", "A", "S", "E", "]", "]">>

RECURSIVE ReplaceAll(_, _, _)
\* html.replace(/pat/g, rep) for a pattern that is a literal string
ReplaceAll(str, pat, rep) ==
  IF Len(str) < Len(pat) THEN str
  ELSE IF SubSeq(str, 1, Len(pat)) = pat
       THEN rep \o ReplaceAll(SubSeq(str, Len(pat) + 1, Len(str)), pat, rep)
       ELSE <<Head(str)>> \o ReplaceAll(Tail(str), pat, rep)

\* replace(/\[\[BASE\]\]/g, base) of sidebar.js and admin-header.js
replaceBase(html, base) == ReplaceAll(html, BaseToken, base)

\* a lookup that takes the first link whatever its data-key
querySelectorAnyKey(html, el) ==
  IF \E i \in 1..Len(html) : html[i] \in {"<a data-key=dashboard>", "<a data-key=settings>"}
  THEN CHOOSE i \in 1..Len(html) :
         /\ html[i] \in {"<a data-key=dashboard>", "<a data-key=settings>"}
         /\ \A j \in 1..(i - 1) : html[j] \notin {"<a data-key=dashboard>", "<a data-key=settings>"}
  ELSE 0

\* position of the first element of html matching a selector (0 if none)
querySelector(html, el) ==
  IF \E i \in 1..Len(html) : html[i] = el
  THEN CHOOSE i \in 1..Len(html) : html[i] = el /\ \A j \in 1..(i - 1) : html[j] # el
  ELSE 0

KeyElement(key) ==
  CASE key = "dashboard" -> "<a data-key=dashboard>"
    [] key = "settings" -> "<a data-key=settings>"
    [] OTHER -> "<a data-key=?>"

NoDom(hasRoot) ==
  [root |-> IF hasRoot THEN "placeholder" ELSE "absent",
   tag |-> "", html |-> <<>>, base |-> <<>>, active |-> {}, shown |-> {},
   title |-> Absent, subtitle |-> Absent, searchPlaceholder |-> Absent,
   buttons |-> <<>>, breadcrumb |-> Absent, listeners |-> {},
   dropdown |-> "", clicks |-> <<>>, configured |-> 0]

NoXhr == [url |-> <<>>, readyState |-> 0, status |-> 0, count |-> 0]

NoAttrs ==
  [base |-> Absent, active |-> Absent, title |-> Absent, subtitle |-> Absent,
   searchPlaceholder |-> Absent, actions |-> Absent, type |-> Absent,
   userName |-> Absent, showAuth |-> Absent]

\* ---- admin-header.js: createBreadcrumb and configureHeader ----

\* the label createBreadcrumb derives from a path part: hyphens and
\* underscores to blanks, first letter capitalised, 'Admin' spelled out,
\* '.html' dropped and the first letter capitalised again
Label(part) ==
  CASE part = "admin" -> "Admin Portal"
    [] part = "development" -> "Development"
    [] part = "contracts" -> "Contracts"
    [] part = "backups" -> "Backups"
    [] part = "assiduousflip" -> "Assiduousflip"
    [] part = "client" -> "Client"
    [] part = "docs" -> "Docs"
    [] part = "reports" -> "Reports"
    [] part = "p.html" -> "P"
    [] OTHER -> part

\* path.split('/').filter(function(p) { return p; })
PathParts(path) == SelectSeq(path, LAMBDA t : t # "/")

RECURSIVE Trail(_, _)
\* the loop of createBreadcrumb from part i on
Trail(parts, i) ==
  IF i > Len(parts) THEN <<>>
  ELSE (IF i < Len(parts)
        THEN <<[kind |-> "separator", href |-> <<>>, label |-> "/"],
               [kind |-> "link", href |-> P(SubSeq(parts, 1, i)), label |-> Label(parts[i])]>>
        ELSE <<[kind |-> "separator", href |-> <<>>, label |-> "/"],
               [kind |-> "current", href |-> <<>>, label |-> Label(parts[i])]>>)
       \o Trail(parts, i + 1)

\* a createBreadcrumb that offers Back on every page that has a breadcrumb
createBreadcrumbBackAlways(pathParts) ==
  IF Len(pathParts) <= 1 THEN Absent
  ELSE Match(
    <<[kind |-> "back", href |-> P(SubSeq(pathParts, 1, Len(pathParts) - 1)),
       label |-> "Back"]>>
    \o <<[kind |-> "home", href |-> <<"/">>, label |-> "Home"]>>
    \o Trail(pathParts, 1))

\* createBreadcrumb: Absent for null, else the items joined
createBreadcrumb(pathParts) ==
  IF Len(pathParts) <= 1 THEN Absent
  ELSE Match(
    (IF Len(pathParts) > 2
     THEN <<[kind |-> "back", href |-> P(SubSeq(pathParts, 1, Len(pathParts) - 1)),
             label |-> "Back"]>>
     ELSE <<>>)
    \o <<[kind |-> "home", href |-> <<"/">>, label |-> "Home"]>>
    \o Trail(pathParts, 1))

\* configureHeader applied to the document d; [dom, threw]
configureHeader(d, path, config) ==
  LET pathParts == PathParts(path)
      has(el) == querySelector(d.html, el) # 0
      d1 == IF Len(pathParts) > 1 /\ has("<div data-breadcrumb-container>")
               /\ createBreadcrumb(pathParts) # Absent
            THEN [d EXCEPT !.breadcrumb = createBreadcrumb(pathParts)] ELSE d
      d2 == IF has("<h1 data-header-title>") /\ config.title # ""
            THEN [d1 EXCEPT !.title = Match(config.title)] ELSE d1
      d3 == IF has("<p data-header-subtitle>") /\ config.subtitle # ""
            THEN [d2 EXCEPT !.subtitle = Match(config.subtitle)] ELSE d2
      d4 == IF has("<input data-search-input>") /\ config.searchPlaceholder # ""
            THEN [d3 EXCEPT !.searchPlaceholder = Match(config.searchPlaceholder)] ELSE d3
      \* config.actions && config.actions.length > 0
      nonEmpty == \/ config.actions.kind = "array" /\ Len(config.actions.items) > 0
                  \/ config.actions.kind = "string"
      render == has("<div data-header-actions>") /\ nonEmpty
  IN IF render /\ config.actions.kind = "string"
     THEN [dom |-> d4, threw |-> TRUE]      \* "x".map is not a function
     ELSE IF render
     THEN [dom |-> [d4 EXCEPT !.buttons = config.actions.items], threw |-> FALSE]
     ELSE [dom |-> d4, threw |-> FALSE]

\* ---- what sidebar.js and admin-header.js do once the document is ready ----

\* a status test without the upper limit
StatusAtLeast200(status) == status >= 200

\* the status test of the readystatechange handlers
StatusOK(status) == status >= 200 /\ status < 300

\* a callback that requests the template without looking for the placeholder
OnReadyXhrUnguarded ==
  /\ UNCHANGED <<lcfg, llog>>
  /\ xhr' = [url |-> IF loader = "sidebar" THEN sidebarPath(page.pathname)
                     ELSE headerPath(page.pathname),
             readyState |-> 1, status |-> 0, count |-> xhr.count + 1]
  /\ lpc' = "pending"

\* the function handed to onReady
OnReadyXhr ==
  IF ~page.hasRoot
  THEN /\ lpc' = "done"
       /\ UNCHANGED <<xhr, lcfg, llog>>
  ELSE /\ lcfg' = IF loader = "sidebar"
                  THEN [base |-> sidebarResolveBase(page.attrs.base, page.pathname),
                        active |-> AttrOr(page.attrs.active, "")]
                  ELSE [base |-> adminResolveBase(page.attrs.base),
                        config |-> parseConfig(page.attrs)]
       /\ llog' = llog
            \cup (IF loader = "admin" /\ parseConfig(page.attrs).warned
                  THEN {"warn: Failed to parse header actions"} ELSE {})
            \cup {IF loader = "sidebar" THEN "log: Loading sidebar from"
                  ELSE "log: Loading header from"}
       /\ xhr' = [url |-> IF loader = "sidebar" THEN sidebarPath(page.pathname)
                          ELSE headerPath(page.pathname),
                  readyState |-> 1, status |-> 0, count |-> xhr.count + 1]
       /\ lpc' = "pending"

\* a handler that schedules configureHeader whatever the status
OnDoneXhrAlwaysConfigure(status) ==
  /\ dom' = IF StatusOK(status)
            THEN [dom EXCEPT !.root = "template",
                    !.tag = IF loader = "sidebar" THEN "aside.sidebar" ELSE "header.admin-header",
                    !.html = replaceBase(template, lcfg.base), !.base = lcfg.base]
            ELSE dom
  /\ timers' = IF loader = "admin" THEN Append(timers, "configureHeader") ELSE timers
  /\ lpc' = IF loader = "admin" THEN "injected" ELSE "done"
  /\ UNCHANGED llog

\* the readystatechange handler at readyState 4
OnDoneXhr(status) ==
  IF StatusOK(status)
  THEN LET html == replaceBase(template, lcfg.base) IN
       IF loader = "sidebar"
       THEN LET link == IF lcfg.active # ""
                        THEN querySelector(html, KeyElement(lcfg.active)) ELSE 0
            IN /\ dom' = [dom EXCEPT !.root = "template", !.tag = "aside.sidebar",
                            !.html = html, !.base = lcfg.base,
                            !.active = IF link # 0 THEN {link} ELSE {}]
               /\ lpc' = "done"
               /\ UNCHANGED <<llog, timers>>
       ELSE /\ dom' = [dom EXCEPT !.root = "template", !.tag = "header.admin-header",
                         !.html = html, !.base = lcfg.base]
            /\ timers' = Append(timers, "configureHeader")
            /\ lpc' = "injected"
            /\ UNCHANGED llog
  ELSE /\ llog' = llog \cup {IF loader = "sidebar"
                             THEN "error: Failed to load sidebar template"
                             ELSE "error: Failed to load admin header template"}
       /\ lpc' = "done"
       /\ UNCHANGED <<dom, timers>>

Statuses == {0, 200, 299, 300, 404}

\* the script runs: onReady calls fn at once unless the document is loading
RunScriptXhr ==
  /\ loader \in {"sidebar", "admin"} /\ lpc = "script"
  /\ IF page.readyState = "loading"
     THEN lpc' = "waiting" /\ UNCHANGED <<xhr, lcfg, llog>>
     ELSE OnReadyXhr
  /\ UNCHANGED <<loader, page, template, dom, timers, wvars, dvars>>

\* DOMContentLoaded fires
DOMContentLoadedXhr ==
  /\ loader \in {"sidebar", "admin"} /\ lpc = "waiting"
  /\ OnReadyXhr
  /\ page' = [page EXCEPT !.readyState = "interactive"]
  /\ UNCHANGED <<loader, template, dom, timers, wvars, dvars>>

\* readystatechange with readyState 2 or 3: the handler does nothing
XhrProgress ==
  /\ loader \in {"sidebar", "admin"} /\ lpc = "pending"
  /\ xhr.readyState \in {1, 2}
  /\ xhr' = [xhr EXCEPT !.readyState = xhr.readyState + 1]
  /\ UNCHANGED <<loader, lpc, page, template, dom, lcfg, llog, timers, wvars, dvars>>

\* readystatechange with readyState 4; status 0 is a request that failed
XhrDone ==
  /\ loader \in {"sidebar", "admin"} /\ lpc = "pending"
  /\ \E status \in Statuses :
       /\ (status # 0 => xhr.readyState = 3)
       /\ xhr' = [xhr EXCEPT !.readyState = 4, !.status = status]
       /\ OnDoneXhr(status)
  /\ UNCHANGED <<loader, page, template, lcfg, wvars, dvars>>

\* the setTimeout(..., 0) callback of admin-header.js
ConfigureHeader ==
  /\ loader = "admin" /\ lpc = "injected"
  /\ timers # <<>> /\ Head(timers) = "configureHeader"
  /\ LET r == configureHeader(dom, page.pathname, lcfg.config) IN
     /\ dom' = [r.dom EXCEPT !.configured = dom.configured + 1]
     /\ llog' = IF r.threw THEN llog \cup {"uncaught: TypeError"} ELSE llog
  /\ timers' = Tail(timers)
  /\ lpc' = "done"
  /\ UNCHANGED <<loader, page, template, xhr, lcfg, wvars, dvars>>

\* ---- universal-header.js ----

Origin == <<"https://host">>

\* src.startsWith('components/')
StartsWith(str, pre) == Len(str) >= Len(pre) /\ SubSeq(str, 1, Len(pre)) = pre

\* src.replace(/\/components\/universal-header\.js$/, '')
StripScriptName(src) ==
  LET tail == <<"/", "components", "/", "universal-header.js">> IN
  IF Len(src) >= Len(tail) /\ SubSeq(src, Len(src) - Len(tail) + 1, Len(src)) = tail
  THEN SubSeq(src, 1, Len(src) - Len(tail)) ELSE src

\* resolveBase of universal-header.js; script is the src of the script tag
\* found, Absent when no script tag is found
universalResolveBase(script, path) ==
  LET byLocation == IF Includes(path, <<"/">>) THEN Origin \o <<"/", "assiduousflip">>
                    ELSE Origin
  IN IF ~IsPresent(script) THEN byLocation
     ELSE IF script[1] # <<>>
     THEN IF StartsWith(script[1], <<"components", "/">>) THEN byLocation
          ELSE StripScriptName(script[1])
     ELSE <<>>

\* The token regexes are written with doubled backslashes, /\\[\\[BASE\\]\\]/g:
\* a backslash, one character of the class [\\[BASE\\], a backslash, a "]".
baseTokenClass == {"\\", "[", "B", "A", "S", "E"}
typeTokenClass == {"\\", "[", "T", "Y", "P", "E"}
titleTokenClass == {"\\", "[", "T", "I", "L", "E"}
subtitleTokenClass == {"\\", "[", "S", "U", "B", "T", "I", "L", "E"}
searchPlaceholderTokenClass ==
  {"\\", "[", "S", "E", "A", "R", "C", "H", "_", "P", "L", "O", "D"}
userNameTokenClass ==
  {"\\", "[", "U", "S", "E", "R", "_", "N", "A", "M", "(", "?", ":", "d", "+", ")"}

\* the regex matches at the head of str
ClassMatchAt(str, class) ==
  /\ Len(str) >= 4
  /\ str[1] = "\\" /\ str[2] \in class /\ str[3] = "\\" /\ str[4] = "]"

RECURSIVE ReplaceRegex(_, _, _)
\* html.replace(regex, rep) for one of the token regexes
ReplaceRegex(str, class, rep) ==
  IF str = <<>> THEN <<>>
  ELSE IF ClassMatchAt(str, class)
       THEN rep \o ReplaceRegex(SubSeq(str, 5, Len(str)), class, rep)
       ELSE <<Head(str)>> \o ReplaceRegex(Tail(str), class, rep)

Upper(c) ==
  CASE c = "s" -> "S" [] c = "e" -> "E" [] c = "r" -> "R" [] c = "o" -> "O"
    [] OTHER -> c

\* name.substring(a, b).toUpperCase(); a and b are numbers or NaN
SubstringUpper(name, a, b) ==
  LET clamp(n) == IF n = NaN \/ n[1] < 0 THEN 0
                  ELSE IF n[1] > Len(name) THEN Len(name) ELSE n[1]
      lo == IF clamp(a) <= clamp(b) THEN clamp(a) ELSE clamp(b)
      hi == IF clamp(a) <= clamp(b) THEN clamp(b) ELSE clamp(a)
      sub == SubSeq(name, lo + 1, hi)
  IN [i \in 1..Len(sub) |-> Upper(sub[i])]

RECURSIVE CharLen(_)
\* length in characters of a string of tokens
CharLen(str) == IF str = <<>> THEN 0 ELSE Len(Head(str)) + CharLen(Tail(str))

RECURSIVE ReplaceUserName(_, _, _, _)
\* html.replace(userNameTokenRegex, (match, start, end) => ...): the regex has
\* no capture group, so start is the offset of the match and end is the
\* whole string; i is the position reached in whole
ReplaceUserName(whole, i, userName, acc) ==
  IF i > Len(whole) THEN acc
  ELSE LET rest == SubSeq(whole, i, Len(whole)) IN
       IF ClassMatchAt(rest, userNameTokenClass)
       THEN ReplaceUserName(whole, i + 4, userName,
              acc \o (IF userName = <<>> THEN <<>>
                      ELSE SubstringUpper(userName,
                             Num(CharLen(SubSeq(whole, 1, i - 1))), parseInt(whole))))
       ELSE ReplaceUserName(whole, i + 1, userName, Append(acc, whole[i]))

processTokens(html, config) ==
  LET h1 == ReplaceRegex(html, baseTokenClass, config.base)
      h2 == ReplaceRegex(h1, typeTokenClass, <<config.type>>)
      h3 == ReplaceRegex(h2, titleTokenClass, <<config.title>>)
      h4 == ReplaceRegex(h3, subtitleTokenClass,
                         IF config.subtitle = "" THEN <<>> ELSE <<config.subtitle>>)
      h5 == ReplaceRegex(h4, searchPlaceholderTokenClass, <<config.searchPlaceholder>>)
  IN ReplaceUserName(h5, 1, config.userName, <<>>)

\* tokens that open an element
ElementTokens ==
  {"<header>", "<nav>", "<a data-key=dashboard>", "<a data-key=settings>",
   "<div data-breadcrumb-container>", "<h1 data-header-title>",
   "<p data-header-subtitle>", "<input data-search-input>",
   "<div data-header-actions>", "<div class=user-menu>", "<div class=user-avatar>",
   "<div class=user-dropdown>", "<div data-show-if-type=admin>",
   "<div data-show-if-type=client>", "<div data-show-if-type=public>"}
IsElement(t) == t \in ElementTokens

\* position of container.firstElementChild in html (0 for null)
firstElementChild(html) ==
  IF \E i \in 1..Len(html) : IsElement(html[i])
  THEN CHOOSE i \in 1..Len(html) :
         IsElement(html[i]) /\ \A j \in 1..(i - 1) : ~IsElement(html[j])
  ELSE 0

ShowIf(type) ==
  CASE type = "admin" -> "<div data-show-if-type=admin>"
    [] type = "client" -> "<div data-show-if-type=client>"
    [] type = "public" -> "<div data-show-if-type=public>"
    [] OTHER -> "<div data-show-if-type=?>"

\* the config object injectHeader builds, and whether the warning is logged
universalConfig(attrs, script, path) ==
  LET actionsAttr == attrs.actions
      parsed == IF IsPresent(actionsAttr) /\ actionsAttr[1] # ""
                THEN JSONparse(actionsAttr[1]) ELSE EmptyArray
  IN [base |-> universalResolveBase(script, path),
      type |-> AttrOr(attrs.type, "public"),
      title |-> AttrOr(attrs.title, "Assiduous Properties"),
      subtitle |-> AttrOr(attrs.subtitle, ""),
      userName |-> IF IsPresent(attrs.userName) /\ attrs.userName[1] # <<>>
                   THEN attrs.userName[1] ELSE <<"U", "s", "e", "r">>,
      searchPlaceholder |-> AttrOr(attrs.searchPlaceholder, "Search..."),
      showAuth |-> IsPresent(attrs.showAuth) /\ attrs.showAuth[1] = "true",
      actions |-> IF parsed.ok THEN parsed ELSE EmptyArray,
      warned |-> ~parsed.ok]

\* injectHeader of universal-header.js up to the call of fetch
OnReadyFetch ==
  IF ~page.hasRoot
  THEN /\ lpc' = "done"
       /\ UNCHANGED <<xhr, lcfg, llog>>
  ELSE LET config == universalConfig(page.attrs, page.script, page.pathname) IN
       /\ lcfg' = [base |-> config.base, config |-> config]
       /\ llog' = llog
            \cup (IF config.warned THEN {"warn: Failed to parse data-actions"} ELSE {})
            \cup {"log: Universal Header: Attempting to fetch from"}
       /\ xhr' = [url |-> config.base \o <<"/", "components", "/", "universal-header.html">>,
                  readyState |-> 1, status |-> 0, count |-> xhr.count + 1]
       /\ lpc' = "pending"

RunScriptFetch ==
  /\ loader = "universal" /\ lpc = "script"
  /\ IF page.readyState = "loading"
     THEN lpc' = "waiting" /\ UNCHANGED <<xhr, lcfg, llog>>
     ELSE OnReadyFetch
  /\ UNCHANGED <<loader, page, template, dom, timers, wvars, dvars>>

DOMContentLoadedFetch ==
  /\ loader = "universal" /\ lpc = "waiting"
  /\ OnReadyFetch
  /\ page' = [page EXCEPT !.readyState = "interactive"]
  /\ UNCHANGED <<loader, template, dom, timers, wvars, dvars>>

\* the fetch promise settles: rejected (status 0) or resolved with a response
FetchSettle ==
  /\ loader = "universal" /\ lpc = "pending"
  /\ \E status \in Statuses :
       /\ xhr' = [xhr EXCEPT !.readyState = 4, !.status = status]
       /\ lpc' = IF status = 0 THEN "catch" ELSE "response"
  /\ UNCHANGED <<loader, page, template, dom, lcfg, llog, timers, wvars, dvars>>

\* a handler that takes every response for a template
ResponseAny(status) == TRUE

\* response.ok
ResponseOK(status) == status >= 200 /\ status <= 299

\* .then(response => ...): throws unless response.ok; response.text() can
\* still reject when the body cannot be read
ThenResponse ==
  /\ loader = "universal" /\ lpc = "response"
  /\ \E bodyReadable \in BOOLEAN :
       lpc' = IF ResponseOK(xhr.status) /\ bodyReadable THEN "text" ELSE "catch"
  /\ llog' = llog \cup {"log: Fetch response status"}
  /\ UNCHANGED <<loader, page, template, xhr, dom, lcfg, timers, wvars, dvars>>

\* setupInteractivity on the injected header d: [dom, threw]
setupInteractivity(d, config) ==
  LET has(el) == querySelector(d.html, el) # 0
      l1 == IF has("<div class=user-menu>") /\ has("<div class=user-avatar>")
               /\ has("<div class=user-dropdown>")
            THEN {"avatar.click", "document.click"} ELSE {}
      l2 == IF has("<input data-search-input>") THEN {"search.input"} ELSE {}
      d1 == [d EXCEPT !.listeners = l1 \cup l2]
      actions == Truthy(config.actions) /\ config.type = "admin"
                 /\ has("<div data-header-actions>")
  IN IF actions /\ config.actions.kind # "array"
     THEN [dom |-> d1, threw |-> TRUE]      \* config.actions.forEach is not a function
     ELSE IF actions
     THEN [dom |-> [d1 EXCEPT !.buttons = config.actions.items], threw |-> FALSE]
     ELSE [dom |-> d1, threw |-> FALSE]

\* .then(html => ...)
ThenHtml ==
  /\ loader = "universal" /\ lpc = "text"
  /\ LET html == processTokens(template, lcfg.config)
         first == firstElementChild(html)
     IN IF first = 0
        THEN \* showOnlyHeaderType(null, type) throws
             /\ lpc' = "catch"
             /\ UNCHANGED <<dom, timers>>
        ELSE LET header == SubSeq(html, first, Len(html))
                 replaced == [dom EXCEPT !.root = "template", !.tag = "header.universal",
                                !.html = header, !.base = lcfg.base,
                                !.shown = {i \in 1..Len(header) :
                                             header[i] = ShowIf(lcfg.config.type)}]
                 r == setupInteractivity(replaced, lcfg.config)
             IN /\ dom' = r.dom
                /\ lpc' = IF r.threw THEN "catch" ELSE "done"
                /\ timers' = IF r.threw THEN timers
                             ELSE Append(timers, "universalHeaderLoaded")
  /\ llog' = llog \cup {"log: Successfully fetched header template"}
  /\ UNCHANGED <<loader, page, template, xhr, lcfg, wvars, dvars>>

\* ---- clicks on the injected universal header ----

MaxClicks == 3

\* where a click can land: the avatar, an entry of the dropdown, the page
ClickTargets == {"avatar", "dropdown", "body"}

\* userDropdown.style.display === 'block' ? 'none' : 'block'
toggleDisplay(display) == IF display = "block" THEN "none" ELSE "block"

\* a dispatch in which the avatar's listener does not stop the event
dispatchClickBubbling(d, target) ==
  LET d1 == IF target = "avatar" /\ "avatar.click" \in d.listeners
            THEN [d EXCEPT !.dropdown = toggleDisplay(d.dropdown)] ELSE d
  IN IF "document.click" \in d.listeners THEN [d1 EXCEPT !.dropdown = "none"] ELSE d1

\* a click event: the avatar's listener toggles and stops the propagation;
\* any other click bubbles to the document's listener, which closes
dispatchClick(d, target) ==
  IF target = "avatar" /\ "avatar.click" \in d.listeners
  THEN [d EXCEPT !.dropdown = toggleDisplay(d.dropdown)]
  ELSE IF "document.click" \in d.listeners
  THEN [d EXCEPT !.dropdown = "none"]
  ELSE d

\* the user clicks on the avatar of the injected header
ClickAvatar ==
  /\ loader = "universal" /\ lpc = "done" /\ dom.root = "template"
  /\ querySelector(dom.html, "<div class=user-avatar>") # 0
  /\ Len(dom.clicks) < MaxClicks
  /\ dom' = [dispatchClick(dom, "avatar") EXCEPT !.clicks = Append(dom.clicks, "avatar")]
  /\ UNCHANGED <<loader, lpc, page, template, xhr, lcfg, llog, timers, wvars, dvars>>

\* the user clicks anywhere else in the document
ClickElsewhere ==
  /\ loader = "universal" /\ lpc = "done" /\ dom.root = "template"
  /\ Len(dom.clicks) < MaxClicks
  /\ \E target \in ClickTargets \ {"avatar"} :
       dom' = [dispatchClick(dom, target) EXCEPT !.clicks = Append(dom.clicks, target)]
  /\ UNCHANGED <<loader, lpc, page, template, xhr, lcfg, llog, timers, wvars, dvars>>

\* createFallbackHeader: root.outerHTML = fallbackHtml does nothing once root
\* has left the document
createFallbackHeader(d, base) ==
  IF d.root = "placeholder"
  THEN [d EXCEPT !.root = "fallback", !.tag = "header.universal",
                 !.html = <<"<header fallback>">>, !.base = base]
  ELSE d

\* .catch(err => ...)
Catch ==
  /\ loader = "universal" /\ lpc = "catch"
  /\ llog' = llog \cup {"error: Failed to load universal header",
                        "log: Using fallback header instead"}
  /\ dom' = createFallbackHeader(dom, lcfg.base)
  /\ lpc' = "done"
  /\ UNCHANGED <<loader, page, template, xhr, lcfg, timers, wvars, dvars>>

\* ------------------------------------------------------------------------
\* install.sh
\* A text file is a sequence of lines, a line a sequence of tokens.
\* ------------------------------------------------------------------------

MaxLines == 3
MaxRuns == 2

LinkTag == "<link rel=stylesheet href=CDN_BASE/ui-components/dist/sirsimaster-ui.css>"
ScriptTag == "<script src=CDN_BASE/ui-components/dist/sirsimaster-ui.js></script>"

\* the lines an index.html is made of
LineKinds == {<<"x">>, <<"</head>">>, <<"<head>", "x", "</head>", "<body>">>}
IndexFiles == UNION {[1..n -> LineKinds] : n \in 0..MaxLines}

\* the install script not running
IIdle == ipc = [at |-> "idle", PROJECT_TYPE |-> ""] /\ project = None /\ iruns = 0

\* [ -f name ]
Exists(p, name) ==
  IF name = "index.html" THEN IsPresent(p.indexHtml) ELSE name \in p.others

\* detect_project_type
detect_project_type(p) ==
  IF Exists(p, "package.json") THEN "node"
  ELSE IF Exists(p, "index.html") THEN "static"
  ELSE IF Exists(p, "requirements.txt") \/ Exists(p, "setup.py") THEN "python"
  ELSE "unknown"

\* a line holds the text pat
LineHas(line, pats) == \E i \in 1..Len(line) : line[i] \in pats

\* grep -q "sirsimaster-ui.css" index.html
grepCss(lines) == \E i \in 1..Len(lines) : LineHas(lines[i], {LinkTag})

\* the three lines the sed command inserts
Inserted ==
  <<<<"<!-- SirsiMaster Component Library -->">>, <<LinkTag>>, <<ScriptTag>>>>

RECURSIVE sedInsert(_)
\* sed '/<\/head>/i\ ...': the text goes before every line that matches
sedInsert(lines) ==
  IF lines = <<>> THEN <<>>
  ELSE (IF LineHas(Head(lines), {"</head>"}) THEN Inserted ELSE <<>>)
       \o <<Head(lines)>> \o sedInsert(Tail(lines))

\* add_ui_components with PROJECT_TYPE = type
add_ui_components(p, type) ==
  LET p1 == IF type \in {"static", "unknown"}
            THEN IF Exists(p, "index.html") /\ ~grepCss(p.indexHtml[1])
                 THEN [p EXCEPT !.indexHtml = Match(sedInsert(p.indexHtml[1])),
                                !.others = @ \cup {"index.html.bak"}]
                 ELSE p
            ELSE IF type = "node"
            THEN [p EXCEPT !.others = @ \cup {"node_modules"}]
            ELSE p
  IN [p1 EXCEPT !.others = @ \cup {"sirsimaster-examples.html"}]

\* add_cicd_pipeline; curl may fail
add_cicd_pipeline(p, curlOk) ==
  [p EXCEPT !.others = @ \cup {".cicd/config.json"}
                         \cup (IF curlOk THEN {".github/workflows/deploy.yml"} ELSE {})]

\* add_dev_tools; curl may fail
add_dev_tools(p, curlOk) ==
  [p EXCEPT !.others = @ \cup {".gitignore"}
                         \cup (IF curlOk THEN {"scripts/verify-completion.sh"} ELSE {})]

InstallInit ==
  /\ ipc = [at |-> "start", PROJECT_TYPE |-> ""]
  /\ project \in [indexHtml : {Absent} \cup {Match(f) : f \in IndexFiles},
                  others : SUBSET {"package.json", "requirements.txt"}]
  /\ iruns = 1

\* lines 1-39: the banner and PROJECT_TYPE=$(detect_project_type)
DetectProjectType ==
  /\ ipc.at = "start"
  /\ ipc' = [at |-> "menu", PROJECT_TYPE |-> detect_project_type(project)]
  /\ UNCHANGED <<project, iruns, dpc, decls, code, componentInfo, mvars, wvars, lvars>>

\* lines 191-241: the menu, the case statement and the summary
ChooseOption ==
  /\ ipc.at = "menu"
  /\ \E choice \in {"1", "2", "3", "4", "5", ""}, curlOk \in BOOLEAN :
       /\ project' =
            CASE choice = "1" ->
                   add_dev_tools(
                     add_cicd_pipeline(add_ui_components(project, ipc.PROJECT_TYPE), curlOk),
                     curlOk)
              [] choice = "2" -> add_ui_components(project, ipc.PROJECT_TYPE)
              [] choice = "3" -> add_cicd_pipeline(project, curlOk)
              [] choice = "4" -> add_dev_tools(project, curlOk)
              [] OTHER -> project
       /\ ipc' = [ipc EXCEPT !.at = IF choice \in {"1", "2"} THEN "exit after add_ui_components"
                                    ELSE "exit"]
  /\ UNCHANGED <<iruns, dpc, decls, code, componentInfo, mvars, wvars, lvars>>

\* the user starts the script again in the same directory
RunAgain ==
  /\ ipc.at \in {"exit", "exit after add_ui_components"}
  /\ iruns < MaxRuns
  /\ iruns' = iruns + 1
  /\ ipc' = [at |-> "start", PROJECT_TYPE |-> ""]
  /\ UNCHANGED <<project, dpc, decls, code, componentInfo, mvars, wvars, lvars>>

InstallNext == DetectProjectType \/ ChooseOption \/ RunAgain

WIdle ==
  /\ wpc = "idle" /\ wloc = None /\ environments = <<>> /\ picked = <<>>
  /\ console = {} /\ files = NoFiles /\ secretsShown = <<>>

DIdle ==
  /\ dpc = "idle" /\ decls = <<>> /\ code = <<>> /\ componentInfo = None
  /\ MIdle

LIdle ==
  /\ loader = None /\ lpc = "idle" /\ page = None /\ template = <<>>
  /\ xhr = None /\ dom = None /\ lcfg = None /\ llog = {} /\ timers = <<>>

\* ---- the pages the loaders are run on ----

DataBases == {Absent, Match(<<>>), Match(<<" ">>), Match(<<".", ".">>),
              Match(<<".", ".", "/">>)}
ActiveAttrs == {Absent, Match(""), Match("dashboard"), Match("settings"), Match("nosuch")}
ActionsAttrs ==
  {Absent, Match(""), Match("{bad"), Match("[]"),
   Match("[{\"label\":\"Add\",\"primary\":true}]"),
   Match("[{\"label\":\"Add\"},{\"label\":\"Docs\",\"href\":\"/docs\"}]"),
   Match("null"), Match("5"), Match("{}"), Match("\"x\"")}
\* data-title, data-subtitle and data-search-placeholder: none or all given
TitleAttrs == {<<Absent, Absent, Absent>>,
               <<Match("Users"), Match("All users"), Match("Find a user")>>}
TypeAttrs == {Absent, Match("admin"), Match("client")}
UserNameAttrs == {Absent, Match(<<"J", "o">>)}
ScriptTags == {Absent, Match(<<"components", "/", "universal-header.js">>),
               Match(<<"/", "site", "/", "components", "/", "universal-header.js">>)}

AttrsOf(l) ==
  IF l = "sidebar"
  THEN {[NoAttrs EXCEPT !.base = b, !.active = a] : b \in DataBases, a \in ActiveAttrs}
  ELSE IF l = "admin"
  THEN {[NoAttrs EXCEPT !.base = b, !.title = t[1], !.subtitle = t[2],
                        !.searchPlaceholder = t[3], !.actions = a] :
          b \in DataBases, t \in TitleAttrs, a \in ActionsAttrs}
  ELSE {[NoAttrs EXCEPT !.type = y, !.userName = u, !.title = t[1], !.subtitle = t[2],
                        !.searchPlaceholder = t[3], !.actions = a] :
          y \in TypeAttrs, u \in UserNameAttrs, t \in TitleAttrs, a \in ActionsAttrs}

ScriptsOf(l) == IF l = "universal" THEN ScriptTags ELSE {Absent}

SomePaths == {PathOf(<<>>, "p.html"), PathOf(<<"admin">>, "p.html"),
              PathOf(<<"admin", "development">>, "p.html")}

TemplatesOf(l) ==
  IF l = "sidebar"
  THEN {<<"<nav>", "<a data-key=dashboard>">> \o BaseToken
          \o <<"<a data-key=settings>">> \o BaseToken,
        <<"<nav>">>}
  ELSE IF l = "admin"
  THEN {<<"<div data-breadcrumb-container>", "<h1 data-header-title>",
          "<p data-header-subtitle>", "<input data-search-input>",
          "<div data-header-actions>">> \o BaseToken,
        <<"<h1 data-header-title>">>}
  ELSE {<<"<header>", "<div data-show-if-type=admin>", "<div data-show-if-type=public>",
          "<div class=user-menu>", "<div class=user-avatar>", "<div class=user-dropdown>",
          "<input data-search-input>", "<div data-header-actions>">> \o BaseToken,
        <<"x">>}

\* a page about to run loader script l
PageInit(l, paths, attrs, scripts, templates) ==
  /\ loader = l
  /\ lpc = "script"
  /\ page \in [pathname : paths, readyState : {"loading", "complete"},
               hasRoot : BOOLEAN, attrs : attrs, script : scripts]
  /\ template \in templates
  /\ xhr = NoXhr
  /\ dom = NoDom(page.hasRoot)
  /\ lcfg = [base |-> <<>>]
  /\ llog = {}
  /\ timers = <<>>

Loaders == {"sidebar", "admin", "universal"}

LoaderInit ==
  /\ \E l \in Loaders : PageInit(l, SomePaths, AttrsOf(l), ScriptsOf(l), TemplatesOf(l))
  /\ WIdle /\ DIdle /\ IIdle

XhrNext ==
  \/ RunScriptXhr \/ DOMContentLoadedXhr \/ XhrProgress \/ XhrDone \/ ConfigureHeader

LoaderNext ==
  \/ RunScriptXhr \/ DOMContentLoadedXhr \/ XhrProgress \/ XhrDone \/ ConfigureHeader
  \/ RunScriptFetch \/ DOMContentLoadedFetch \/ FetchSettle \/ ThenResponse
  \/ ThenHtml \/ Catch

LoaderSpec == LoaderInit /\ [][LoaderNext]_vars

\* ---- pages at every depth, for the path heuristics ----

MaxDepth == 3
PathDirs == {"admin", "development", "contracts", "backups", "assiduousflip",
             "client", "reports"}
DirSeqs == UNION {[1..n -> PathDirs] : n \in 0..MaxDepth}
AllPaths == {PathOf(ds, f) : ds \in DirSeqs, f \in {"p.html", ""}}

PathAttrs == {[NoAttrs EXCEPT !.base = b] : b \in DataBases}

PathInit ==
  /\ \E l \in {"sidebar", "admin"} :
       PageInit(l, AllPaths, PathAttrs, {Absent},
                {<<"<div data-breadcrumb-container>">> \o BaseToken})
  /\ page.hasRoot
  /\ WIdle /\ DIdle /\ IIdle

PathSpec == PathInit /\ [][XhrNext]_vars

\* ---- one page with the universal header, and a user who clicks ----

ClickAttrs ==
  {[NoAttrs EXCEPT !.type = y, !.actions = a] :
     y \in TypeAttrs, a \in {Absent, Match("{bad"), Match("5"), Match("{}"),
                              Match("[{\"label\":\"Add\",\"primary\":true}]")}}

ClickInit ==
  /\ PageInit("universal", {PathOf(<<"admin">>, "p.html")}, ClickAttrs, {Absent},
              TemplatesOf("universal"))
  /\ page.hasRoot
  /\ WIdle /\ DIdle /\ IIdle

ClickNext ==
  \/ RunScriptFetch \/ DOMContentLoadedFetch \/ FetchSettle \/ ThenResponse
  \/ ThenHtml \/ Catch \/ ClickAvatar \/ ClickElsewhere

ClickSpec == ClickInit /\ [][ClickNext]_vars

\* ---- templates of every shape, for the token substitution ----

MaxChunks == 3
\* [[TITLE]] and [[USER_NAME:0:1]] as the template spells them
TitleToken == <<"[", "[", "T", "I", "T", "L", "E", "]", "]">>
UserNameSliceToken ==
  <<"[", "[", "U", "S", "E", "R", "_", "N", "A", "M", "E", ":", "0", ":", "1", "]", "]">>
Chunks == {BaseToken, TitleToken, UserNameSliceToken, <<"x">>, <<"<header>">>,
           <<"\\", "B", "\\", "]">>}
RECURSIVE Flatten(_)
Flatten(cs) == IF cs = <<>> THEN <<>> ELSE Head(cs) \o Flatten(Tail(cs))
AllTemplates == {Flatten(cs) : cs \in UNION {[1..n -> Chunks] : n \in 0..MaxChunks}}

TemplateAttrs == {[NoAttrs EXCEPT !.base = b] : b \in {Absent, Match(<<".", ".">>)}}

TemplateInit ==
  /\ \E l \in Loaders :
       PageInit(l, {PathOf(<<"admin">>, "p.html")}, TemplateAttrs,
                IF l = "universal"
                THEN {Match(<<"/", "site", "/", "components", "/", "universal-header.js">>)}
                ELSE {Absent},
                AllTemplates)
  /\ page.hasRoot
  /\ WIdle /\ DIdle /\ IIdle

TemplateSpec == TemplateInit /\ [][LoaderNext]_vars

\* ---- claims about the loaders ----

\* the data-base attribute is missing, empty or blank
BlankDataBase ==
  ~IsPresent(page.attrs.base) \/ \A i \in 1..Len(page.attrs.base[1]) : page.attrs.base[1][i] = " "

\* the page lies in directory d1/d2 (d2 = "" for any page below d1)
Below(d1, d2) ==
  \E i \in 1..Len(page.pathname) :
    /\ i + 2 <= Len(page.pathname)
    /\ page.pathname[i] = "/" /\ page.pathname[i + 1] = d1 /\ page.pathname[i + 2] = "/"
    /\ d2 # "" => /\ i + 4 <= Len(page.pathname)
                  /\ page.pathname[i + 3] = d2 /\ page.pathname[i + 4] = "/"

\* C4: without a non-blank data-base the sidebar's resolveBase yields "../"
\* below /admin/development/ and below /admin/contracts/, "" elsewhere below
\* /admin/, and "admin/" for every other page.
C4_ResolveBasePrefixes ==
  (loader = "sidebar" /\ lpc \in {"pending", "done"} /\ xhr.count > 0 /\ BlankDataBase) =>
    /\ Below("admin", "development") => lcfg.base = <<".", ".", "/">>
    /\ Below("admin", "contracts") => lcfg.base = <<".", ".", "/">>
    /\ (Below("admin", "") /\ ~Below("admin", "development")
        /\ ~Below("admin", "contracts")) => lcfg.base = <<>>
    /\ ~Below("admin", "") => lcfg.base = <<"admin", "/">>

\* C4 witness: a page below /admin/development/ with a blank data-base
C4_Witness ==
  /\ loader = "sidebar" /\ lpc = "done"
  /\ page.attrs.base = Match(<<" ">>)
  /\ page.pathname = PathOf(<<"admin", "development">>, "p.html")
  /\ lcfg.base = <<".", ".", "/">>

\* C5: once a loader has injected the template, the injected markup holds no
\* [[BASE]] token.
C5_NoBaseTokenLeft ==
  (loader \in Loaders /\ dom.root = "template") => ~Includes(dom.html, BaseToken)

\* C6: in the universal header, when the fetch was rejected or answered with a
\* non-OK status the placeholder ends up replaced by the fallback header, and
\* no finished load leaves the placeholder in the page.
C6_FallbackOnFailure ==
  (loader = "universal" /\ lpc = "done" /\ xhr.count > 0) =>
    /\ dom.root # "placeholder"
    /\ ~(xhr.status >= 200 /\ xhr.status <= 299) => dom.root = "fallback"

\* C6 witness: a 404 answered with the fallback header
C6_Witness ==
  /\ loader = "universal" /\ lpc = "done"
  /\ xhr.status = 404
  /\ dom.root = "fallback"
  /\ "log: Using fallback header instead" \in llog

\* C7: in the sidebar and admin header loaders a request that completes with
\* a status outside 200-299 logs an error and changes nothing else: the
\* placeholder stays, nothing is injected, configureHeader is not scheduled
\* and no link is marked active.
C7_NonOKLeavesPage ==
  (loader \in {"sidebar", "admin"} /\ xhr.readyState = 4
   /\ ~(xhr.status >= 200 /\ xhr.status <= 299)) =>
    /\ dom = NoDom(page.hasRoot)
    /\ dom.root = "placeholder"
    /\ timers = <<>>
    /\ lpc = "done"
    /\ \E line \in llog : line \in {"error: Failed to load sidebar template",
                                    "error: Failed to load admin header template"}

\* C7 witness: the admin header template answered with 404
C7_Witness ==
  /\ loader = "admin" /\ lpc = "done"
  /\ xhr.readyState = 4 /\ xhr.status = 404
  /\ "error: Failed to load admin header template" \in llog

\* data-actions is given and is not valid JSON
BadActions ==
  /\ IsPresent(page.attrs.actions) /\ page.attrs.actions[1] # ""
  /\ page.attrs.actions[1] \notin {"[]", "null", "5", "{}", "\"x\"",
       "[{\"label\":\"Add\",\"primary\":true}]",
       "[{\"label\":\"Add\"},{\"label\":\"Docs\",\"href\":\"/docs\"}]"}

\* C8: with a data-actions attribute that is not valid JSON the header
\* loaders log a warning, take the action list as empty, keep title,
\* subtitle and search placeholder from the other attributes, issue the
\* request, and inject the header when the template arrives.
C8_BadActionsStillInjects ==
  (loader \in {"admin", "universal"} /\ page.hasRoot /\ BadActions
   /\ lpc \notin {"script", "waiting"}) =>
    /\ \E line \in llog : line \in {"warn: Failed to parse header actions",
                                    "warn: Failed to parse data-actions"}
    /\ lcfg.config.actions.kind = "array" /\ lcfg.config.actions.items = <<>>
    /\ IsPresent(page.attrs.title) => lcfg.config.title = page.attrs.title[1]
    /\ IsPresent(page.attrs.subtitle) => lcfg.config.subtitle = page.attrs.subtitle[1]
    /\ IsPresent(page.attrs.searchPlaceholder) =>
         lcfg.config.searchPlaceholder = page.attrs.searchPlaceholder[1]
    /\ xhr.count = 1
    /\ (loader = "admin" /\ xhr.readyState = 4 /\ xhr.status >= 200 /\ xhr.status <= 299) =>
         /\ dom.root = "template"
         /\ dom.buttons = <<>>
         /\ (lpc = "done" /\ querySelector(template, "<h1 data-header-title>") # 0) =>
              dom.title = Match(lcfg.config.title)
    /\ (loader = "universal" /\ lpc = "done"
        /\ "log: Successfully fetched header template" \in llog
        /\ firstElementChild(template) # 0) =>
         /\ dom.root = "template"
         /\ timers = <<"universalHeaderLoaded">>

\* C8 witness: an admin header with broken data-actions, configured
C8_Witness ==
  /\ loader = "admin" /\ lpc = "done" /\ BadActions
  /\ page.attrs.title = Match("Users")
  /\ dom.root = "template"
  /\ dom.title = Match("Users")
  /\ dom.buttons = <<>>

\* number of "../" steps of a relative URL
Levels(url) == Cardinality({i \in 1..Len(url) : url[i] = ".."})

\* number of directories between the site root and the page; a site served
\* under /assiduousflip/ has its root there
Depth(path) ==
  LET slashes == Cardinality({i \in 1..Len(path) : path[i] = "/"}) IN
  IF Len(path) >= 3 /\ path[2] = "assiduousflip" THEN slashes - 2 ELSE slashes - 1

\* C9: for every page the template URL of the sidebar loader and of the admin
\* header loader climbs as many levels as the page lies below the site root,
\* and both climb the same number of levels.
C9_ClimbsToRoot ==
  (loader \in {"sidebar", "admin"} /\ lpc = "pending") =>
    /\ Levels(xhr.url) = Depth(page.pathname)
    /\ Levels(sidebarPath(page.pathname)) = Levels(headerPath(page.pathname))

WizardInit == WInit /\ DIdle /\ LIdle /\ IIdle
WizardNext ==
  \/ AskProject \/ AskBuild \/ AskTesting \/ AskProduction \/ AskStaging
  \/ AskDevelopment \/ AskAdvanced \/ Generate
WizardSpec == WizardInit /\ [][WizardNext]_vars

\* C12: after the sidebar template is injected with a non-empty data-active k,
\* the injected element whose data-key is k, and no other element, was given
\* the class active; with data-active absent or empty no element was.
C12_ActiveHighlight ==
  (loader = "sidebar" /\ dom.root = "template") =>
    LET k == page.attrs.active IN
    dom.active = IF IsPresent(k) /\ k[1] # ""
                 THEN {i \in 1..Len(dom.html) : dom.html[i] = KeyElement(k[1])}
                 ELSE {}

C12_Witness ==
  /\ loader = "sidebar" /\ dom.root = "template"
  /\ page.attrs.active = Match("settings")
  /\ \E i \in dom.active : dom.html[i] = "<a data-key=settings>"

\* C13: for a pathname of n >= 2 segments the breadcrumb is Home, a link for
\* each of the first n-1 segments whose href is the path up to that segment
\* followed by "/", and the last segment as the one breadcrumb-current item;
\* a Back link to the parent path is there iff n > 2; for n <= 1 there is
\* no breadcrumb and the container stays hidden.
C13_Breadcrumb ==
  (loader = "admin" /\ lpc = "done" /\ dom.root = "template") =>
    LET parts == PathParts(page.pathname)
        n == Len(parts)
        upTo(i) == [j \in 1..(2 * i + 1) |-> IF j % 2 = 1 THEN "/" ELSE parts[j \div 2]]
    IN IF n <= 1 THEN dom.breadcrumb = Absent
       ELSE /\ IsPresent(dom.breadcrumb)
            /\ LET items == SelectSeq(dom.breadcrumb[1], LAMBDA it : it.kind # "separator")
                    off == IF n > 2 THEN 1 ELSE 0
               IN /\ Len(items) = off + 1 + n
                  /\ Cardinality({i \in 1..Len(items) : items[i].kind = "back"}) = off
                  /\ n > 2 => items[1].kind = "back" /\ items[1].href = upTo(n - 1)
                  /\ items[off + 1].kind = "home" /\ items[off + 1].href = <<"/">>
                  /\ \A i \in 1..(n - 1) :
                       /\ items[off + 1 + i].kind = "link"
                       /\ items[off + 1 + i].href = upTo(i)
                  /\ items[off + 1 + n].kind = "current"

\* a page three directories down whose header shows Back and the whole trail
C13_Witness ==
  /\ loader = "admin" /\ lpc = "done" /\ dom.root = "template"
  /\ Len(PathParts(page.pathname)) = 4
  /\ IsPresent(dom.breadcrumb)
  /\ dom.breadcrumb[1][1].kind = "back"

\* C14: each loader issues at most one HTTP request per page load, whether the
\* script runs before or after DOMContentLoaded and whether or not the request
\* succeeds, and none when the placeholder element is absent.
C14_AtMostOneRequest ==
  loader \in Loaders =>
    /\ xhr.count <= 1
    /\ ~page.hasRoot => xhr.count = 0

\* a script that ran while the document was loading and whose request failed
C14_Witness ==
  /\ loader \in Loaders /\ lpc = "done"
  /\ page.readyState = "interactive"
  /\ xhr.count = 1 /\ xhr.readyState = 4 /\ xhr.status = 404

\* C15: when the user picks "Same as production" for staging, the staging
\* entry of config.providers has the provider, the type and the
\* provider-specific fields of the production entry, and environment "staging".
C15_SameAsProduction ==
  (wpc = "done" /\ "staging" \in DOMAIN picked /\ StagingIds[picked.staging] = "same") =>
    LET providers == files[".cicd/config.json"].providers
        prod == providers["production"]
        staging == providers["staging"]
    IN /\ staging.provider = prod.provider
       /\ staging.type = prod.type
       /\ \A f \in DOMAIN prod \ {"name", "environment"} :
            f \in DOMAIN staging /\ staging[f] = prod[f]
       /\ "environment" \in DOMAIN staging /\ staging.environment = "staging"

\* C16: when the user picks "Local only" for development, config.providers has
\* no development entry and .cicd/development.env.example is not written; the
\* .cicd/<name>.env.example files written are those of the keys of
\* config.providers.
C16_LocalOnly ==
  wpc = "done" =>
    LET providers == files[".cicd/config.json"].providers IN
    /\ {f \in DOMAIN files : f \notin {".cicd/config.json", ".github/workflows/deploy.yml"}}
         = {EnvFileName(n) : n \in DOMAIN providers}
    /\ ("development" \in DOMAIN picked /\ DevIds[picked.development] = "local") =>
         /\ "development" \notin DOMAIN providers
         /\ ".cicd/development.env.example" \notin DOMAIN files

RECURSIVE OpenAfter(_)
\* open iff the last click was on the avatar and the dropdown was closed before it
OpenAfter(clicks) ==
  /\ clicks # <<>>
  /\ clicks[Len(clicks)] = "avatar"
  /\ ~OpenAfter(SubSeq(clicks, 1, Len(clicks) - 1))

\* C17: after any sequence of clicks on the avatar and elsewhere, the user
\* dropdown is open iff the most recent click was on the avatar and the
\* dropdown was closed before it.
C17_DropdownToggle ==
  (loader = "universal" /\ dom.root = "template" /\ "avatar.click" \in dom.listeners) =>
    (dom.dropdown = "block") = OpenAfter(dom.clicks)

\* avatar, avatar, avatar: opened, closed, open again
C17_Witness ==
  /\ loader = "universal" /\ "avatar.click" \in dom.listeners
  /\ dom.clicks = <<"avatar", "avatar", "avatar">>
  /\ dom.dropdown = "block"

\* C18: the placeholder of the universal header is replaced once, by the
\* fetched template or by the fallback; universalHeaderLoaded is dispatched
\* exactly once iff the template was injected, and the fallback path with its
\* "Using fallback header instead" log is never taken once the template has
\* replaced the placeholder.
C18_ReplacedOnce ==
  loader = "universal" =>
    LET dispatched == Cardinality({i \in 1..Len(timers) : timers[i] = "universalHeaderLoaded"})
    IN /\ dispatched <= 1
       /\ lpc = "done" => ((dispatched = 1) <=> (dom.root = "template"))
       /\ ~(dom.root = "template" /\ "log: Using fallback header instead" \in llog)

\* C19: in the admin header loader configureHeader runs once per page load,
\* only after a 2xx response and only after the placeholder has been replaced
\* by the injected header.admin-header; title, subtitle, search placeholder,
\* breadcrumb and action buttons are never applied before the injection.
C19_ConfigureAfterInjection ==
  loader = "admin" =>
    /\ dom.configured <= 1
    /\ dom.configured + Len(timers) <= 1
    /\ (dom.configured = 1 \/ timers # <<>>) =>
         /\ xhr.readyState = 4 /\ xhr.status >= 200 /\ xhr.status <= 299
         /\ dom.root = "template" /\ dom.tag = "header.admin-header"
    /\ dom.configured = 0 =>
         /\ dom.title = Absent /\ dom.subtitle = Absent /\ dom.searchPlaceholder = Absent
         /\ dom.breadcrumb = Absent /\ dom.buttons = <<>>
    /\ (lpc = "done" /\ dom.root = "template") => dom.configured = 1
    /\ (lpc = "injected") => ENABLED ConfigureHeader

\* a configured header: the title of the page was applied after the injection
C19_Witness ==
  /\ loader = "admin" /\ lpc = "done" /\ dom.root = "template"
  /\ dom.configured = 1
  /\ dom.title = Match("Users") /\ IsPresent(dom.breadcrumb)

\* C20: processTokens replaces every [[USER_NAME]] and [[USER_NAME:s:e]] token
\* and every [[TYPE]], [[TITLE]], [[SUBTITLE]] and [[SEARCH_PLACEHOLDER]] token
\* by the configured value, so that no such token is left in the header the
\* universal loader injects.
C20_NoTokenLeft ==
  (loader = "universal" /\ dom.root = "template") =>
    /\ ~Includes(dom.html, TitleToken)
    /\ ~Includes(dom.html, UserNameSliceToken)
    /\ ~Includes(dom.html, <<"[", "[", "U", "S", "E", "R", "_", "N", "A", "M", "E">>)
    /\ ~Includes(dom.html, <<"[", "[", "T", "Y", "P", "E", "]", "]">>)
    /\ ~Includes(dom.html, <<"[", "[", "S", "U", "B", "T", "I", "T", "L", "E", "]", "]">>)

\* C21: the index lists every parsed component exactly once, under the
\* category of the first directory segment of its path relative to the
\* components directory, a component lying directly in that directory under
\* "root" (heading "Root"); the category sections are in ascending order.
C21_IndexByCategory ==
  mpc = "done" =>
    LET secs == indexFile.sections
        expected(p) == IF \E i \in 1..Len(p) : p[i] = "/" THEN p[1] ELSE "root"
        cats == {expected(components[i].filePath) : i \in 1..Len(components)}
        under(c) == SelectSeq(components, LAMBDA info : expected(info.filePath) = c)
    IN \E at \in [1..Len(secs) -> cats] :
         /\ \A c \in cats : \E k \in 1..Len(secs) : at[k] = c
         /\ \A k, l \in 1..Len(secs) : k < l => FirstCodeUnit(at[k]) < FirstCodeUnit(at[l])
         /\ \A k \in 1..Len(secs) :
              /\ secs[k].heading = capitalize(at[k])
              /\ Len(secs[k].items) = Len(under(at[k]))
              /\ \A i \in 1..Len(secs[k].items) :
                   secs[k].items[i].name = under(at[k])[i].name

\* C22: on a static project whose index.html contains </head>, after one or any
\* number of runs of add_ui_components index.html holds exactly one SirsiMaster
\* stylesheet link and one script include, and a run that finds the include
\* already there leaves index.html as it was.
C22_InstallIdempotent ==
  (ipc.at = "exit after add_ui_components" /\ ipc.PROJECT_TYPE = "static"
     /\ \E i \in 1..Len(project.indexHtml[1]) : LineHas(project.indexHtml[1][i], {"</head>"})) =>
    LET lines == project.indexHtml[1]
        count(tag) == Cardinality({i \in 1..Len(lines) : LineHas(lines[i], {tag})})
    IN count(LinkTag) = 1 /\ count(ScriptTag) = 1

RECURSIVE DecimalValue(_)
\* the number a string of digits spells
DecimalValue(ds) ==
  IF ds = <<>> THEN 0
  ELSE 10 * DecimalValue(SubSeq(ds, 1, Len(ds) - 1)) + DigitVal(ds[Len(ds)])

\* the answer parses to the integer k >= 0: blanks, an optional "+", then a
\* longest run of digits spelling k
ParsesTo(answer, k) ==
  \E i \in 1..Len(answer), j \in 1..Len(answer) :
    /\ i <= j
    /\ \A b \in 1..(i - 1) : answer[b] = " " \/ (b = i - 1 /\ answer[b] = "+")
    /\ \A d \in i..j : IsDigit(answer[d])
    /\ j = Len(answer) \/ ~IsDigit(answer[j + 1])
    /\ DecimalValue(SubSeq(answer, i, j)) = k

\* C23: selectOption returns the k-th option when the answer parses to an
\* integer k between 1 and the number of options, the first option for every
\* other answer, never a value outside the list, and asks only once.
C23_SelectOption ==
  wpc = "returned" =>
    LET n == Len(wloc.options) IN
    /\ wloc.asked = 1
    /\ \E k \in 1..n : wloc.returned = wloc.options[k]
    /\ \A k \in 1..n : ParsesTo(wloc.answer, k) => wloc.returned = wloc.options[k]
    /\ (~\E k \in 1..n : ParsesTo(wloc.answer, k)) => wloc.returned = wloc.options[1]

\* " 2a" read as 2, on the six staging options
C23_Witness ==
  /\ wpc = "returned"
  /\ wloc.answer = <<" ", "2", "a">>
  /\ wloc.options = StagingOptions
  /\ wloc.returned = StagingOptions[2]

SelectNext == SelectOption
SelectorInit == SelectInit /\ DIdle /\ LIdle /\ IIdle
SelectSpec == SelectorInit /\ [][SelectNext]_vars

\* C11: a file whose processing throws is logged and skipped; every remaining
\* file is still processed, and the index is generated and written at the end.
C11_ThrowingFileSkipped ==
  LET cf == scanComponents(fsys)
      processed == SelectSeq(mlog, LAMBDA l : l.kind = "Processing")
      errors == SelectSeq(mlog, LAMBDA l : l.kind = "Error processing")
      thrown == SelectSeq(cf, LAMBDA p : p \in fsys.unreadable
                                          \/ basenameNoExt(p) \in fsys.unwritable)
  IN /\ mpc # "rejected" \/ (~fsys.indexWritable /\ mi > Len(cf))
     /\ (mpc \in {"done", "rejected"} \/ (mpc = "loop" /\ mi > Len(cf))) =>
          /\ processed = [i \in 1..Len(cf) |-> MLine("Processing", basename(cf[i]))]
          /\ errors = [i \in 1..Len(thrown) |-> MLine("Error processing", thrown[i])]
          /\ \A p \in Range(cf) \ fsys.unreadable :
               \E i \in 1..Len(components) : components[i].filePath = p
          /\ \A p \in Range(cf) :
               (p \notin fsys.unreadable /\ basenameNoExt(p) \notin fsys.unwritable)
                 => basenameNoExt(p) \in DOMAIN docs
     /\ (mpc = "done") =>
          /\ indexFile = [written |-> TRUE, sections |-> generateIndex(components)]
          /\ \A p \in Range(cf) : p \in fsys.unreadable =>
               \A i \in 1..Len(components) : components[i].filePath # p
     /\ (mpc = "loop" /\ mi > Len(cf) /\ fsys.indexWritable) => ENABLED WriteIndex

\* a run in which an early file threw and a later one was documented and indexed
C11_Witness ==
  /\ mpc = "done"
  /\ Len(componentFiles) >= 2
  /\ componentFiles[1] \in fsys.unreadable
  /\ \E i \in 2..Len(componentFiles) : basenameNoExt(componentFiles[i]) \in DOMAIN docs
  /\ indexFile.written /\ Len(indexFile.sections) >= 1

MainNext == MainScan \/ ProcessFile \/ WriteIndex
GeneratorInit == MainInit /\ WIdle /\ LIdle /\ IIdle
MainSpec == GeneratorInit /\ [][MainNext]_vars

\* what install.sh starts from
InstallerInit ==
  /\ InstallInit /\ WIdle /\ LIdle
  /\ dpc = "idle" /\ decls = <<>> /\ code = <<>> /\ componentInfo = None /\ MIdle

InstallSpec == InstallerInit /\ [][InstallNext]_vars

DocgenInit == DocInit /\ WIdle /\ LIdle /\ IIdle
DocgenNext == DocParse
DocgenSpec == DocgenInit /\ [][DocgenNext]_vars

====
